---- MODULE Spec2Model ----
(***************************************************************************)
(* Verification model of the LangPack Studio translation pipeline:         *)
(*   - PromisePool                  (src/src/utils/translationCache.ts)     *)
(*   - ParallelTranslationProcessor (src/src/utils/translationCache.ts)     *)
(*   - the services' batchTranslate (src/src/utils/translationService.ts)   *)
(*   - TranslationCache             (src/src/utils/translationCache.ts)     *)
(*                                                                         *)
(* JavaScript is single threaded: every action below is one run of a       *)
(* handler from the point it is entered (a call, a timer, a settled        *)
(* promise) to the point where it next awaits.                              *)
(***************************************************************************)
EXTENDS Integers, Sequences, FiniteSets, TLC

VARIABLES
    pool,      \* PromisePool: maxConcurrent, rateLimitMs, running, queue, and
               \* per submitted operation its stage and the dispatch record
    waiter,    \* a caller of PromisePool.waitForAll()
    proc,      \* ParallelTranslationProcessor / one translateSmartBatch call
    svc,       \* a service's batchTranslate call built on top of proc
    cache,     \* TranslationCache: memoryCache, counters, timers, storage
    manager,   \* AdaptiveConcurrencyManager of one service
    limiter,   \* RateLimiter, its callers and its own millisecond clock
    now        \* Date.now(), in units of MsPerUnit ms

vars == <<pool, waiter, proc, svc, cache, manager, limiter, now>>

(***************************************************************************)
(* Bounds of the model.                                                    *)
(***************************************************************************)
MaxOps == 3          \* operations submitted to a pool in one behaviour
MaxConcurrent == 2   \* largest maxConcurrent a pool is constructed with
MaxPriority == 1     \* priorities passed to add() range over 0..MaxPriority

OpIds == 1..MaxOps
\* timed runs of the pool: number of operations, longest duration
MaxTimedOps == 5
MaxDuration == 2

(***************************************************************************)
(* PromisePool                                                             *)
(***************************************************************************)

\* Stages of one submitted operation (one QueueItem and its future):
\*   "new"      not submitted yet
\*   "queued"   in this.queue, future pending
\*   "delay"    taken from the queue, counted in running, awaiting delay()
\*   "exec"     item.fn() was invoked and has not settled
\*   "resolved" item.resolve(result) was called
\*   "rejected" item.reject(error) was called
Stages == {"new", "queued", "delay", "exec", "resolved", "rejected"}

\* new PromisePool(maxConcurrent, rateLimitMs)
NewPool(maxConcurrent, rateLimitMs) ==
    [ maxConcurrent |-> maxConcurrent,
      rateLimitMs   |-> rateLimitMs,
      running       |-> 0,
      queue         |-> <<>>,
      stage         |-> [i \in OpIds |-> "new"],
      callOf        |-> [i \in OpIds |-> 0],   \* the add/addAll call that submitted i
      dispatched    |-> <<>>,                  \* ids in the order they left the queue
      justDispatched |-> <<>> ]                \* the dispatches of the current run:
                                               \* the item taken and the queue it was taken from

\* (a.priority || 0): priorities are integers here, for which || 0 is the identity
PriorityOf(item) == item.priority

\* the comparator of processNext's sort: (a, b) => (b.priority||0) - (a.priority||0)
compareFn_Ascending(a, b) == PriorityOf(a) - PriorityOf(b)
compareFn(a, b) == PriorityOf(b) - PriorityOf(a)

\* Array.prototype.sort is stable: x is placed behind every element that does
\* not compare greater than it.
RECURSIVE InsertSorted(_, _)
InsertSorted(s, x) ==
    IF s = <<>> THEN <<x>>
    ELSE IF compareFn(Head(s), x) <= 0
         THEN <<Head(s)>> \o InsertSorted(Tail(s), x)
         ELSE <<x>> \o s

RECURSIVE SortQueue(_)
SortQueue(q) ==
    IF q = <<>> THEN <<>>
    ELSE InsertSorted(SortQueue(SubSeq(q, 1, Len(q) - 1)), q[Len(q)])

\* The guard of processNext, negated: a dispatch happens
CanDispatch_NoLimit(p) == Len(p.queue) > 0
CanDispatch_OffByOne(p) == p.running <= p.maxConcurrent /\ Len(p.queue) > 0
CanDispatch(p) == p.running < p.maxConcurrent /\ Len(p.queue) > 0

\* processNext up to its first await: guard, sort, shift, running++.
\* With rateLimitMs = 0 item.fn() is invoked in the same run.
processNext(p) ==
    IF ~CanDispatch(p) THEN p
    ELSE LET sorted == SortQueue(p.queue)
             item   == Head(sorted)
         IN [p EXCEPT !.queue = Tail(sorted),
                      !.running = @ + 1,
                      !.stage[item.id] = IF p.rateLimitMs > 0 THEN "delay" ELSE "exec",
                      !.dispatched = Append(@, item.id),
                      !.justDispatched = Append(@, [item |-> item, waiting |-> p.queue])]

\* add(fn, priority): push, then processNext()
add_NoDispatch(p, id, priority) ==
    [p EXCEPT !.queue = Append(@, [id |-> id, priority |-> priority]),
              !.stage[id] = "queued"]
add(p, id, priority) ==
    processNext([p EXCEPT !.queue = Append(@, [id |-> id, priority |-> priority]),
                          !.stage[id] = "queued"])

\* a handler starts to run: nothing was dispatched in this run yet
begin(p) == [p EXCEPT !.justDispatched = <<>>]

\* the ids submitted by one call: ids[1] names the call
submittedBy(p, ids) ==
    [p EXCEPT !.callOf = [i \in OpIds |-> IF \E k \in 1..Len(ids) : ids[k] = i
                                          THEN ids[1] ELSE @[i]]]

\* addAll(tasks): tasks.map((task, index) => this.add(task, tasks.length - index))
RECURSIVE addAllFrom(_, _, _, _)
addAllFrom(p, ids, index, length) ==
    IF index >= length THEN p
    ELSE addAllFrom(add(p, ids[index + 1], length - index), ids, index + 1, length)

addAll(p, ids) == addAllFrom(p, ids, 0, Len(ids))

\* the finally block of processNext: running--, processNext()
finallyBlock_NoNext(p) == [p EXCEPT !.running = @ - 1]
finallyBlock(p) == processNext([p EXCEPT !.running = @ - 1])

\* item.fn() settled: resolve or reject the item's own future, then finally
settle_NoFinallyOnReject(p, id, ok) ==
    IF ok THEN finallyBlock([p EXCEPT !.stage[id] = "resolved"])
    ELSE [p EXCEPT !.stage[id] = "rejected"]
settle(p, id, ok) ==
    finallyBlock([p EXCEPT !.stage[id] = IF ok THEN "resolved" ELSE "rejected"])

\* ids in a given stage
InStage(p, st) == {i \in OpIds : p.stage[i] = st}

\* the operation whose delay() timer fires next: timers of equal length fire
\* in the order they were set, which is the dispatch order
NextDelayed(p) ==
    LET idx == {k \in 1..Len(p.dispatched) : p.stage[p.dispatched[k]] = "delay"}
    IN IF idx = {} THEN 0
       ELSE p.dispatched[CHOOSE k \in idx : \A j \in idx : k <= j]

\* getStatus()
getStatus(p) == [running |-> p.running, queued |-> Len(p.queue)]


(***************************************************************************)
(* ParallelTranslationProcessor                                            *)
(***************************************************************************)
MaxItems == 3        \* entries handed to one translateSmartBatch call
MaxUsage == 2        \* entries that share one text, where the batching is examined

\* Source texts the callers submit: short ones of equal priority, one with
\* the special characters calculatePriority counts, and one beyond its length
\* thresholds (50, 200) and the text size createSmartBatches looks for (500).
X10 == "xxxxxxxxxx"
X100 == X10 \o X10 \o X10 \o X10 \o X10 \o X10 \o X10 \o X10 \o X10 \o X10
X600 == X100 \o X100 \o X100 \o X100 \o X100 \o X100
TextHello == "Hello"
TextWorld == "World"
TextFormat == "%s {0}\\n"
TextBigA == "A" \o X600
TextPool == {TextHello, TextWorld, TextFormat, TextBigA}

KeyOf(i) == "k" \o ToString(i)

\* the entry lists a caller can pass: keys unique, texts may repeat
ItemLists ==
    UNION { { [i \in 1..n |-> [key |-> KeyOf(i), text |-> t[i]]] : t \in [1..n -> TextPool] }
            : n \in 0..MaxItems }

\* What the vendor translator does with one text: a translation (here a tag
\* and the text's first character, different for different texts of TextPool)
\* or an exception.
Translated(text) == "[T] " \o SubSeq(text, 1, 1)
ErrorMessageOf(text) == "Mock translation failed for: " \o SubSeq(text, 1, 1)

\* values of the result map: a string, or the object { error: string }
Str(s) == [kind |-> "string", text |-> s]
ErrorObject(message) == [kind |-> "error", text |-> message]

EmptyMap == [k \in {} |-> Str("")]
MapSet(m, k, v) == [x \in (DOMAIN m) \cup {k} |-> IF x = k THEN v ELSE m[x]]

\* keys.forEach(key => { results.set(key, value) })
MapSetAll_FirstOnly(m, keys, v) == MapSet(m, Head(keys), v)
RECURSIVE MapSetAll(_, _, _)
MapSetAll(m, keys, v) ==
    IF keys = <<>> THEN m ELSE MapSetAll(MapSet(m, Head(keys), v), Tail(keys), v)

\* items.forEach(item => { keys = uniqueTexts.get(item.text) || []; keys.push(item.key);
\*                         uniqueTexts.set(item.text, keys) })
\* The Map keeps the texts in the order of their first occurrence.
collectItem_NoDedup(uniqueTexts, item) ==
    Append(uniqueTexts, [text |-> item.text, keys |-> <<item.key>>])
collectItem(uniqueTexts, item) ==
    IF \E i \in 1..Len(uniqueTexts) : uniqueTexts[i].text = item.text
    THEN LET i == CHOOSE i \in 1..Len(uniqueTexts) : uniqueTexts[i].text = item.text
         IN [uniqueTexts EXCEPT ![i].keys = Append(@, item.key)]
    ELSE Append(uniqueTexts, [text |-> item.text, keys |-> <<item.key>>])

RECURSIVE collectUniqueTexts(_, _)
collectUniqueTexts(uniqueTexts, items) ==
    IF items = <<>> THEN uniqueTexts
    ELSE collectUniqueTexts(collectItem(uniqueTexts, Head(items)), Tail(items))

\* (text.match(/[%\{\}\\]/g) || []).length
complexityOf(text) ==
    Cardinality({k \in 1..Len(text) : SubSeq(text, k, k) \in {"%", "{", "}", "\\"}})

\* calculatePriority(text, usageCount)
calculatePriority(text, usageCount) ==
    LET length  == Len(text)
        isShort == IF length < 50 THEN 2 ELSE IF length < 200 THEN 1 ELSE 0
    IN usageCount * 10 + isShort * 5 - complexityOf(text) - (length \div 100)

\* .sort((a, b) => b.priority - a.priority): the same stable descending sort
sortTasks_Unsorted(tasks) == tasks
sortTasks(tasks) == SortQueue(tasks)

\* translationTasks: one task per unique text, highest priority first
translationTasks(items) ==
    LET uniqueTexts == collectUniqueTexts(<<>>, items)
    IN sortTasks([i \in 1..Len(uniqueTexts) |->
                    [text     |-> uniqueTexts[i].text,
                     keys     |-> uniqueTexts[i].keys,
                     priority |-> calculatePriority(uniqueTexts[i].text,
                                                    Len(uniqueTexts[i].keys))]])

\* createSmartBatches(tasks); a batch is the sequence of its tasks' indices
RECURSIVE smartBatchesFrom(_, _, _, _, _, _)
smartBatchesFrom(tasks, i, batches, currentBatch, currentBatchSize, maxBatchSize) ==
    IF i > Len(tasks)
    THEN IF Len(currentBatch) > 0 THEN Append(batches, currentBatch) ELSE batches
    ELSE LET textSize == Len(tasks[i].text)
             split == /\ \/ Len(currentBatch) >= maxBatchSize
                         \/ (currentBatchSize > 1000 /\ textSize > 500)
                      /\ Len(currentBatch) > 0
         IN smartBatchesFrom(tasks, i + 1,
                             IF split THEN Append(batches, currentBatch) ELSE batches,
                             Append(IF split THEN <<>> ELSE currentBatch, i),
                             (IF split THEN 0 ELSE currentBatchSize) + textSize,
                             maxBatchSize)

createSmartBatches_OneBatch(tasks, maxConcurrent) ==
    IF tasks = <<>> THEN <<>> ELSE << [i \in 1..Len(tasks) |-> i] >>

createSmartBatches(tasks, maxConcurrent) ==
    smartBatchesFrom(tasks, 1, <<>>, <<>>, 0, maxConcurrent * 2)

\* Math.round((completed / total) * 100)
percentOf_Floor(completed, total) == (100 * completed) \div total

percentOf(completed, total) == (200 * completed + total) \div (2 * total)

\* new ParallelTranslationProcessor(maxConcurrent, rateLimitMs); adaptive is
\* TRUE for an AdaptiveParallelTranslationProcessor
NewProcessor(adaptive, maxConcurrent) ==
    [ pc            |-> "idle",
      adaptive      |-> adaptive,
      maxConcurrent |-> maxConcurrent,
      items         |-> <<>>,
      tasks         |-> <<>>,
      batches       |-> <<>>,
      batch         |-> 0,
      results       |-> EmptyMap,
      completed     |-> 0,
      progress      |-> <<>>,
      outcome       |-> [i \in OpIds |-> "none"],
      calls         |-> <<>>,   \* the tasks that have called translator(text)
      stats         |-> [processed |-> 0, failed |-> 0, apiCalls |-> 0] ]


\* wrapTranslatorWithMetrics(translator): how the translator handed to the base
\* class settles.  The base processor is given the vendor translator itself.
\* The adaptive processor wraps it, and the wrapper first runs
\*     (this.pool as any).maxConcurrent = config.maxConcurrent
\*     (this.pool as any).rateLimitMs = config.rateLimitMs
\* The first line does not end in a semicolon and the second begins with "(",
\* so no semicolon is inserted: the statement is
\*     pool.maxConcurrent = config.maxConcurrent(pool).rateLimitMs = config.rateLimitMs
\* and calling the number config.maxConcurrent throws a TypeError before either
\* assignment is made and before the vendor translator is called.
wrappedOutcomes(adaptive) ==
    IF adaptive THEN {"typeerror"} ELSE {"ok", "fail"}

\* the literal prefix of the error descriptor (a Japanese phrase in the source,
\* meaning "translation failed")
ErrorPrefix == "translation failed: "

\* error.message of a failed translator call
messageOf(out, text) ==
    IF out = "typeerror" THEN "config.maxConcurrent is not a function"
    ELSE ErrorMessageOf(text)

\* the tasks in `started`, in the order of their dispatch
RECURSIVE callsOf(_, _)
callsOf(dispatched, started) ==
    IF dispatched = <<>> THEN <<>>
    ELSE (IF Head(dispatched) \in started THEN <<Head(dispatched)>> ELSE <<>>)
         \o callsOf(Tail(dispatched), started)

\* item.fn() of every operation that entered "exec" in this run is invoked:
\* the task calls translator(text) with its text
invokeTasks(pr, pOld, pNew) ==
    LET started == {i \in 1..Len(pr.tasks) :
                       pOld.stage[i] # "exec" /\ pNew.stage[i] = "exec"}
    IN [pr EXCEPT !.calls = @ \o callsOf(pNew.dispatched, started)]

\* the body of one task once translator(text) has settled with `out`:
\* fan the value (or the error descriptor) out to every key of the text,
\* update the statistics, count the completion and report progress.
\* threw: whether the task itself rejects (it never does: the catch block
\* swallows the translator's failure).
runTask_NoCatch(pr, id, out) ==
    LET task == pr.tasks[id]
    IN IF out = "ok"
       THEN [threw |-> FALSE,
             proc  |-> [pr EXCEPT
                 !.results = MapSetAll(@, task.keys, Str(Translated(task.text))),
                 !.stats.processed = @ + Len(task.keys),
                 !.stats.apiCalls = @ + 1,
                 !.completed = @ + 1,
                 !.progress = Append(@, percentOf(pr.completed + 1, Len(pr.tasks))),
                 !.outcome[id] = out]]
       ELSE [threw |-> TRUE, proc |-> [pr EXCEPT !.outcome[id] = out]]
runTask(pr, id, out) ==
    LET task == pr.tasks[id]
    IN [threw |-> FALSE,
        proc  |-> IF out = "ok"
                  THEN [pr EXCEPT
                      !.results = MapSetAll(@, task.keys, Str(Translated(task.text))),
                      !.stats.processed = @ + Len(task.keys),
                      !.stats.apiCalls = @ + 1,
                      !.completed = @ + 1,
                      !.progress = Append(@, percentOf(pr.completed + 1, Len(pr.tasks))),
                      !.outcome[id] = out]
                  ELSE [pr EXCEPT
                      !.results = MapSetAll(@, task.keys,
                                      ErrorObject(ErrorPrefix \o messageOf(out, task.text))),
                      !.stats.failed = @ + Len(task.keys),
                      !.completed = @ + 1,
                      !.progress = Append(@, percentOf(pr.completed + 1, Len(pr.tasks))),
                      !.outcome[id] = out]]

\* for (const batch of batches) { await this.pool.addAll(...) } ... return results
\* one turn of the loop: submit the next batch, or return
loopStep(pr, p) ==
    IF pr.batch < Len(pr.batches)
    THEN LET ids == pr.batches[pr.batch + 1]
             p1  == addAll(submittedBy(p, ids), ids)
         IN [pool |-> p1,
             proc |-> invokeTasks([pr EXCEPT !.batch = @ + 1, !.pc = "awaitBatch"], p, p1)]
    ELSE [pool |-> p, proc |-> [pr EXCEPT !.pc = "returned"]]

\* translateSmartBatch(items, translator, onProgress) up to its first await
startSmartBatch(pr, p, items) ==
    LET tasks == translationTasks(items)
    IN loopStep([pr EXCEPT !.items = items,
                           !.tasks = tasks,
                           !.batches = createSmartBatches(tasks, pr.maxConcurrent),
                           !.batch = 0,
                           !.results = EmptyMap,
                           !.completed = 0,
                           !.progress = <<>>], p)

(***************************************************************************)
(* The services' batchTranslate                                            *)
(***************************************************************************)
ServiceNames == {"google", "gemini", "libretranslate"}

NewService(name) == [name |-> name, pc |-> "idle", result |-> <<>>]

\* JavaScript truthiness of a result value: an object, or a non-empty string
Truthy(v) == v.kind = "error" \/ v.text # ""

EmptyResult ==
    [success |-> TRUE, translations |-> <<>>, failed |-> <<>>,
     totalProcessed |-> 0, totalFailed |-> 0]

\* translationResults.get(entry.key) found a value
Has(results, key) == key \in DOMAIN results

\* the conversion loop every service has (Gemini 1035-1062, LibreTranslate
\* 1155-1181, and the second loop of Google 738-764)
RECURSIVE convertLoop(_, _, _, _)
convertLoop(result, entries, results, i) ==
    IF i > Len(entries) THEN result
    ELSE LET entry == entries[i]
             found == Has(results, entry.key)
             translated == IF found THEN results[entry.key] ELSE Str("")
         IN convertLoop(
              IF found /\ translated.kind = "error"
              THEN [result EXCEPT
                      !.failed = Append(@, [key |-> entry.key, error |-> translated.text]),
                      !.totalFailed = @ + 1]
              ELSE IF found /\ Truthy(translated) /\ translated # Str(entry.text)
              THEN [result EXCEPT
                      !.translations = Append(@, [key |-> entry.key, original |-> entry.text,
                                                  translated |-> translated]),
                      !.totalProcessed = @ + 1]
              ELSE [result EXCEPT
                      !.failed = Append(@, [key |-> entry.key, error |-> "not translated"]),
                      !.totalFailed = @ + 1],
              entries, results, i + 1)

\* the first loop of GoogleTranslateService.batchTranslate (715-732): it does
\* not look for the error object, so an error object counts as a translation
RECURSIVE googleFirstLoop(_, _, _, _)
googleFirstLoop(result, entries, results, i) ==
    IF i > Len(entries) THEN result
    ELSE LET entry == entries[i]
             found == Has(results, entry.key)
             translated == IF found THEN results[entry.key] ELSE Str("")
         IN googleFirstLoop(
              IF found /\ Truthy(translated) /\ translated # Str(entry.text)
              THEN [result EXCEPT
                      !.translations = Append(@, [key |-> entry.key, original |-> entry.text,
                                                  translated |-> translated]),
                      !.totalProcessed = @ + 1]
              ELSE [result EXCEPT
                      !.failed = Append(@, [key |-> entry.key,
                                            error |-> "Translation failed or returned original text"]),
                      !.totalFailed = @ + 1],
              entries, results, i + 1)

convertResults_AlwaysSuccess(name, entries, results) ==
    IF name = "google"
    THEN convertLoop(googleFirstLoop(EmptyResult, entries, results, 1), entries, results, 1)
    ELSE convertLoop(EmptyResult, entries, results, 1)

\* batchTranslate after translateSmartBatch returned: build the result
convertResults(name, entries, results) ==
    LET looped == IF name = "google"
                  THEN convertLoop(googleFirstLoop(EmptyResult, entries, results, 1),
                                   entries, results, 1)
                  ELSE convertLoop(EmptyResult, entries, results, 1)
    IN [looped EXCEPT !.success = (2 * looped.totalFailed < Len(entries))]


(***************************************************************************)
(* TranslationCache                                                        *)
(***************************************************************************)
\* The cache's clock counts units of MsPerUnit milliseconds: every duration
\* the cache uses is a whole number of seconds, and Date.now() in
\* milliseconds does not fit the model checker's integers.
MsPerUnit == 1000
MAX_MEMORY_ENTRIES == 2      \* 1000 in the source, scaled down
MAX_STORAGE_SIZE == 300      \* 5 * 1024 * 1024 in the source, scaled down
TTL == (24 * 60 * 60 * 1000) \div MsPerUnit
SaveDelay == 5000 \div MsPerUnit
CleanupInterval == (60 * 60 * 1000) \div MsPerUnit
StartTime == 17 * 100000000  \* Date.now() when the cache is constructed

MaxCacheOps == 3     \* calls of set, get, clear and dispose in one behaviour
MaxShortOps == 2     \* the same, in the behaviours of SpecCacheShort
MaxTicks == 2        \* advances of the clock in one behaviour
\* the clock advances by the debounce delay or by a whole TTL: an entry touched
\* TTL ago is still valid, one touched TTL + SaveDelay ago is not
TickSteps == {SaveDelay, TTL}

\* texts of the cache's callers: two of them agree on their first 50 characters
P50 == X10 \o X10 \o X10 \o X10 \o X10
CacheLong1 == P50 \o " one"
CacheLong2 == P50 \o " two"
NoService == ""      \* the optional service argument left out (undefined)
CacheTuples ==
    { [text |-> TextHello,  from |-> "en", to |-> "ja", service |-> "google"],
      [text |-> CacheLong1, from |-> "en", to |-> "ja", service |-> "google"],
      [text |-> CacheLong2, from |-> "en", to |-> "ja", service |-> "google"],
      [text |-> TextWorld,  from |-> "en", to |-> "ja", service |-> NoService] }
CacheValues == {"v1", "v2"}
\* the tuple recorded for a call that takes no arguments
NoTuple == [text |-> "", from |-> "", to |-> "", service |-> NoService]

Min(a, b) == IF a < b THEN a ELSE b

\* text.substring(0, 50)
substring50_Whole(text) == text
substring50(text) == SubSeq(text, 1, Min(50, Len(text)))

\* getCacheKey(text, from, to, service)
getCacheKey(text, from, to, service) ==
    LET serviceKey == IF service = NoService THEN "default" ELSE service
    IN serviceKey \o ":" \o from \o ":" \o to \o ":" \o substring50(text)

KeyOfTuple(u) == getCacheKey(u.text, u.from, u.to, u.service)

\* memoryCache is a Map: a sequence of [key, entry] rows in insertion order
IndexOf(table, key) ==
    IF \E i \in 1..Len(table) : table[i].key = key
    THEN CHOOSE i \in 1..Len(table) : table[i].key = key
    ELSE 0

KeysOf(table) == {table[i].key : i \in 1..Len(table)}

RemoveAt(table, i) == SubSeq(table, 1, i - 1) \o SubSeq(table, i + 1, Len(table))

\* Map.set(key, entry): an existing key keeps its place
MapPut(table, key, entry) ==
    LET i == IndexOf(table, key)
    IN IF i = 0 THEN Append(table, [key |-> key, entry |-> entry])
       ELSE [table EXCEPT ![i].entry = entry]

NoTimer == [armed |-> FALSE, due |-> 0]

\* evictLeastUsed(): scan in insertion order; the first row is always taken
\* (leastHitCount starts at Infinity), a later row replaces it when its score
\* hitCount * 1000 + (Date.now() - timestamp) is strictly smaller
evictScore(entry, t) == entry.hitCount * 1000 + (t - entry.timestamp) * MsPerUnit

RECURSIVE evictScan(_, _, _, _)
evictScan(table, t, i, least) ==
    IF i > Len(table) THEN least
    ELSE evictScan(table, t, i + 1,
                   IF least = 0 \/ evictScore(table[i].entry, t) < evictScore(table[least].entry, t)
                   THEN i ELSE least)

evictLeastUsed_None(table, t) == table

evictLeastUsed(table, t) ==
    LET least == evictScan(table, t, 1, 0)
    IN IF least = 0 THEN table ELSE RemoveAt(table, least)

\* scheduleSaveToStorage(): clearTimeout(saveTimer); saveTimer = setTimeout(..., 5000)
scheduleSaveToStorage(c, t) == [c EXCEPT !.saveTimer = [armed |-> TRUE, due |-> t + SaveDelay]]

\* set(text, translated, from, to, service)
set(c, t, text, translated, from, to, service) ==
    LET key   == getCacheKey(text, from, to, service)
        table == IF Len(c.memoryCache) >= MAX_MEMORY_ENTRIES
                 THEN evictLeastUsed(c.memoryCache, t) ELSE c.memoryCache
        entry == [originalText |-> text, translatedText |-> translated,
                  fromLang |-> from, toLang |-> to,
                  timestamp |-> t, hitCount |-> 0, service |-> service]
    IN scheduleSaveToStorage([c EXCEPT !.memoryCache = MapPut(table, key, entry)], t)

\* the value get() returns for a miss
Null == [found |-> FALSE, value |-> ""]
Found(v) == [found |-> TRUE, value |-> v]

get_NoTouch(c, t, text, from, to, service) ==
    LET key == getCacheKey(text, from, to, service)
        i   == IndexOf(c.memoryCache, key)
    IN IF i = 0
       THEN [cache |-> [c EXCEPT !.totalMisses = @ + 1], result |-> Null]
       ELSE IF t - c.memoryCache[i].entry.timestamp > TTL
       THEN [cache |-> [c EXCEPT !.memoryCache = RemoveAt(@, i), !.totalMisses = @ + 1],
             result |-> Null]
       ELSE [cache |-> [c EXCEPT !.memoryCache[i].entry.hitCount = @ + 1,
                                 !.totalHits = @ + 1],
             result |-> Found(c.memoryCache[i].entry.translatedText)]

\* get(text, from, to, service): the cache afterwards and the value returned
get(c, t, text, from, to, service) ==
    LET key == getCacheKey(text, from, to, service)
        i   == IndexOf(c.memoryCache, key)
    IN IF i = 0
       THEN [cache |-> [c EXCEPT !.totalMisses = @ + 1], result |-> Null]
       ELSE IF t - c.memoryCache[i].entry.timestamp > TTL
       THEN [cache |-> [c EXCEPT !.memoryCache = RemoveAt(@, i), !.totalMisses = @ + 1],
             result |-> Null]
       ELSE [cache |-> [c EXCEPT !.memoryCache[i].entry.hitCount = @ + 1,
                                 !.memoryCache[i].entry.timestamp = t,
                                 !.totalHits = @ + 1],
             result |-> Found(c.memoryCache[i].entry.translatedText)]

\* localStorage under STORAGE_KEY: absent, or the serialized table
NoItem == [present |-> FALSE, table |-> <<>>]
Item(table) == [present |-> TRUE, table |-> table]

\* clear(): empty the table, zero the counters, removeItem(STORAGE_KEY)
clear(c) ==
    [c EXCEPT !.memoryCache = <<>>, !.totalHits = 0, !.totalMisses = 0,
              !.storage = NoItem]

\* JSON.stringify(data).length, counting the braces, and per entry the key, the
\* texts and language codes and the fixed punctuation and field names
RECURSIVE serializedLength(_)
serializedLength(table) ==
    IF table = <<>> THEN 2
    ELSE LET e == Head(table).entry
         IN Len(Head(table).key) + Len(e.originalText) + Len(e.translatedText)
            + Len(e.fromLang) + Len(e.toLang) + Len(e.service) + 100
            + serializedLength(Tail(table))

\* the filter of clearOldEntries: cutoff = now - TTL / 2, and an entry goes
\* when now - entry.timestamp > cutoff
isOld(entry, t) == (t - entry.timestamp) > (t - TTL \div 2)

RECURSIVE dropOld(_, _)
dropOld(table, t) ==
    IF table = <<>> THEN <<>>
    ELSE IF isOld(Head(table).entry, t) THEN dropOld(Tail(table), t)
         ELSE <<Head(table)>> \o dropOld(Tail(table), t)

\* saveToStorage() and clearOldEntries() call each other: a table that is too
\* long after the purge purges again, until the call stack is exhausted; the
\* RangeError is caught by the innermost saveToStorage, which logs it, and
\* every outer call returns.  setOutcome: what localStorage.setItem does.
\* lastFlush records how the call ended.
writeItem_QuotaKeepsTable(c, setOutcome) ==
    IF setOutcome = "ok"
    THEN [c EXCEPT !.storage = Item(c.memoryCache), !.lastFlush = "saved"]
    ELSE IF setOutcome = "quota" THEN [c EXCEPT !.lastFlush = "quota"]
    ELSE [c EXCEPT !.lastFlush = "error"]

writeItem(c, setOutcome) ==
    IF setOutcome = "ok"
    THEN [c EXCEPT !.storage = Item(c.memoryCache), !.lastFlush = "saved"]
    ELSE IF setOutcome = "quota" THEN [clear(c) EXCEPT !.lastFlush = "quota"]
    ELSE [c EXCEPT !.lastFlush = "error"]

saveToStorage(c, t, setOutcome) ==
    LET purged == [c EXCEPT !.memoryCache = dropOld(@, t)]
    IN IF serializedLength(c.memoryCache) > MAX_STORAGE_SIZE
       THEN IF serializedLength(purged.memoryCache) > MAX_STORAGE_SIZE
            THEN [purged EXCEPT !.lastFlush = "stack overflow"]
            ELSE writeItem(purged, setOutcome)
       ELSE writeItem(c, setOutcome)

\* clearOldEntries(): purge, then saveToStorage()
clearOldEntries(c, t, setOutcome) ==
    saveToStorage([c EXCEPT !.memoryCache = dropOld(@, t)], t, setOutcome)

\* loadFromStorage(): only entries younger than TTL are loaded
RECURSIVE loadRows(_, _, _)
loadRows(table, rows, t) ==
    IF rows = <<>> THEN table
    ELSE loadRows(IF t - Head(rows).entry.timestamp < TTL
                  THEN MapPut(table, Head(rows).key, Head(rows).entry) ELSE table,
                  Tail(rows), t)

\* new TranslationCache(): loadFromStorage(), startCleanupTimer()
NewCache(stored, t) ==
    [ memoryCache    |-> IF stored.present THEN loadRows(<<>>, stored.table, t) ELSE <<>>,
      totalHits      |-> 0,
      totalMisses    |-> 0,
      saveTimer      |-> NoTimer,
      cleanupTimer   |-> [armed |-> TRUE, due |-> t + CleanupInterval],
      storage        |-> stored,
      lastFlush      |-> "none",
      ops            |-> 0,
      ticks          |-> 0,
      lastOp         |-> [op |-> "none", tuple |-> NoTuple,
                          result |-> Null],
      lastSet        |-> [u \in CacheTuples |-> Null] ]

\* dispose(): clear both timers and save
dispose(c, t, setOutcome) ==
    saveToStorage([c EXCEPT !.saveTimer = NoTimer, !.cleanupTimer = NoTimer], t, setOutcome)


(***************************************************************************)
(* AdaptiveConcurrencyManager                                              *)
(***************************************************************************)
\* rateLimitMs is a fraction of a millisecond after a few adjustments (x 0.9,
\* x 1.3): it is held in units of 1 / RateScale ms, which is exact for up to
\* four adjustments in a row and rounds down afterwards.
RateScale == 10000
MetricsWindow == 2        \* slice(-10) in the source, scaled down
MaxMetricsHistory == 3    \* maxMetricsHistory = 50 in the source, scaled down
MaxManagerTicks == 3      \* advances of the clock in one behaviour
MaxCooldownTicks == 4     \* the same, where the clock also advances by less than the cooldown
Cooldown == 5000 \div MsPerUnit            \* minAdjustmentInterval
\* the clock advances by the cooldown: a call is made either at the moment of
\* the last adjustment or a full cooldown after it
ManagerTickSteps == {Cooldown}

\* backoffFactor is kept in tenths (1.5 is 15)
SERVICE_PROFILES ==
    [ google |->
        [ baseConfig |-> [maxConcurrent |-> 3, rateLimitMs |-> 200 * RateScale,
                          backoffFactor |-> 15,
                          healthCheckInterval |-> 10000 \div MsPerUnit],
          limits |-> [minConcurrent |-> 1, maxConcurrent |-> 8,
                      minRateLimit |-> 100 * RateScale, maxRateLimit |-> 2000 * RateScale] ],
      gemini |->
        [ baseConfig |-> [maxConcurrent |-> 5, rateLimitMs |-> 100 * RateScale,
                          backoffFactor |-> 13,
                          healthCheckInterval |-> 8000 \div MsPerUnit],
          limits |-> [minConcurrent |-> 1, maxConcurrent |-> 10,
                      minRateLimit |-> 50 * RateScale, maxRateLimit |-> 1000 * RateScale] ],
      libretranslate |->
        [ baseConfig |-> [maxConcurrent |-> 2, rateLimitMs |-> 500 * RateScale,
                          backoffFactor |-> 20,
                          healthCheckInterval |-> 15000 \div MsPerUnit],
          limits |-> [minConcurrent |-> 1, maxConcurrent |-> 5,
                      minRateLimit |-> 200 * RateScale, maxRateLimit |-> 3000 * RateScale] ] ]

\* the optional initialConfig argument: left out, or the two fields that
\* AdaptiveParallelTranslationProcessor passes
NoInitialConfig == [given |-> FALSE, maxConcurrent |-> 0, rateLimitMs |-> 0]
InitialConfig(maxConcurrent, rateLimitMs) ==
    [given |-> TRUE, maxConcurrent |-> maxConcurrent, rateLimitMs |-> rateLimitMs * RateScale]

\* the samples handed to recordMetrics: response time in ms and error rate in
\* percent (throughput, successRate and queueDepth take no part in a decision)
SampleExcellent == [responseTime |-> 200,  errorRate |-> 0]
SampleGoodFast  == [responseTime |-> 200,  errorRate |-> 4]
SampleSlow      == [responseTime |-> 2000, errorRate |-> 0]
SampleFailing   == [responseTime |-> 1000, errorRate |-> 50]
Samples == {SampleExcellent, SampleGoodFast, SampleSlow, SampleFailing}

Max(a, b) == IF a > b THEN a ELSE b

\* new AdaptiveConcurrencyManager(service, initialConfig): the profile's base
\* configuration overridden field by field, then startHealthCheck().
\* lastOp is bookkeeping: the handler that ran last and the configuration it
\* found.
NewManager(service, initialConfig, t) ==
    LET profile == SERVICE_PROFILES[service]
        config  == IF initialConfig.given
                   THEN [profile.baseConfig EXCEPT
                            !.maxConcurrent = initialConfig.maxConcurrent,
                            !.rateLimitMs = initialConfig.rateLimitMs]
                   ELSE profile.baseConfig
    IN [ service          |-> service,
         currentConfig    |-> config,
         metrics          |-> << >>,
         lastAdjustment   |-> t,
         healthCheckTimer |-> [armed |-> TRUE, due |-> t + config.healthCheckInterval],
         ticks            |-> 0,
         lastOp           |-> [op |-> "none", before |-> config] ]

RECURSIVE sumResponseTime(_)
sumResponseTime(ms) ==
    IF ms = << >> THEN 0 ELSE Head(ms).responseTime + sumResponseTime(Tail(ms))

RECURSIVE sumErrorRate(_)
sumErrorRate(ms) ==
    IF ms = << >> THEN 0 ELSE Head(ms).errorRate + sumErrorRate(Tail(ms))

\* this.metrics.slice(-10)
recentMetrics_WholeHistory(metrics) == metrics
recentMetrics(metrics) ==
    SubSeq(metrics, Max(1, Len(metrics) - MetricsWindow + 1), Len(metrics))

\* evaluateNetworkCondition(): the averages are kept as a sum and a count, and
\* avg > x is decided as sum > x * count
evaluateNetworkCondition_GoodIfEither(m) ==
    IF Len(m.metrics) = 0
    THEN [status |-> "normal", rtSum |-> 500, count |-> 1]
    ELSE LET recent == recentMetrics(m.metrics)
             n      == Len(recent)
             rt     == sumResponseTime(recent)
             err    == sumErrorRate(recent)
         IN [ status |-> IF err > 30 * n THEN "critical"
                         ELSE IF err > 15 * n \/ rt > 3000 * n THEN "poor"
                         ELSE IF err > 5 * n /\ rt >= 1500 * n THEN "normal"
                         ELSE IF rt < 500 * n /\ err < 2 * n THEN "excellent"
                         ELSE "good",
              rtSum |-> rt,
              count |-> n ]

evaluateNetworkCondition(m) ==
    IF Len(m.metrics) = 0
    THEN [status |-> "normal", rtSum |-> 500, count |-> 1]
    ELSE LET recent == recentMetrics(m.metrics)
             n      == Len(recent)
             rt     == sumResponseTime(recent)
             err    == sumErrorRate(recent)
         IN [ status |-> IF err > 30 * n THEN "critical"
                         ELSE IF err > 15 * n \/ rt > 3000 * n THEN "poor"
                         ELSE IF err > 5 * n \/ rt > 1500 * n THEN "normal"
                         ELSE IF rt < 500 * n /\ err < 2 * n THEN "excellent"
                         ELSE "good",
              rtSum |-> rt,
              count |-> n ]

\* calculateOptimalConfig(condition)
calculateOptimalConfig_NoFloor(m, condition) ==
    LET limits == SERVICE_PROFILES[m.service].limits
        base   == m.currentConfig
    IN CASE condition.status = "excellent" ->
              [base EXCEPT !.maxConcurrent = Min(base.maxConcurrent + 1, limits.maxConcurrent),
                           !.rateLimitMs = Max((base.rateLimitMs * 9) \div 10, limits.minRateLimit)]
         [] condition.status = "good" ->
              IF condition.rtSum < 300 * condition.count
              THEN [base EXCEPT !.maxConcurrent = Min(base.maxConcurrent + 1, limits.maxConcurrent)]
              ELSE base
         [] condition.status = "normal" -> base
         [] condition.status = "poor" ->
              [base EXCEPT !.maxConcurrent = base.maxConcurrent - 1,
                           !.rateLimitMs = Min((base.rateLimitMs * 13) \div 10, limits.maxRateLimit)]
         [] condition.status = "critical" ->
              [base EXCEPT !.maxConcurrent = limits.minConcurrent,
                           !.rateLimitMs = limits.maxRateLimit]

calculateOptimalConfig_GoodAlwaysGrows(m, condition) ==
    LET limits == SERVICE_PROFILES[m.service].limits
        base   == m.currentConfig
    IN CASE condition.status = "excellent" ->
              [base EXCEPT !.maxConcurrent = Min(base.maxConcurrent + 1, limits.maxConcurrent),
                           !.rateLimitMs = Max((base.rateLimitMs * 9) \div 10, limits.minRateLimit)]
         [] condition.status = "good" ->
              [base EXCEPT !.maxConcurrent = Min(base.maxConcurrent + 1, limits.maxConcurrent)]
         [] condition.status = "normal" -> base
         [] condition.status = "poor" ->
              [base EXCEPT !.maxConcurrent = Max(base.maxConcurrent - 1, limits.minConcurrent),
                           !.rateLimitMs = Min((base.rateLimitMs * 13) \div 10, limits.maxRateLimit)]
         [] condition.status = "critical" ->
              [base EXCEPT !.maxConcurrent = limits.minConcurrent,
                           !.rateLimitMs = limits.maxRateLimit]

calculateOptimalConfig(m, condition) ==
    LET limits == SERVICE_PROFILES[m.service].limits
        base   == m.currentConfig
    IN CASE condition.status = "excellent" ->
              [base EXCEPT !.maxConcurrent = Min(base.maxConcurrent + 1, limits.maxConcurrent),
                           !.rateLimitMs = Max((base.rateLimitMs * 9) \div 10, limits.minRateLimit)]
         [] condition.status = "good" ->
              IF condition.rtSum < 300 * condition.count
              THEN [base EXCEPT !.maxConcurrent = Min(base.maxConcurrent + 1, limits.maxConcurrent)]
              ELSE base
         [] condition.status = "normal" -> base
         [] condition.status = "poor" ->
              [base EXCEPT !.maxConcurrent = Max(base.maxConcurrent - 1, limits.minConcurrent),
                           !.rateLimitMs = Min((base.rateLimitMs * 13) \div 10, limits.maxRateLimit)]
         [] condition.status = "critical" ->
              [base EXCEPT !.maxConcurrent = limits.minConcurrent,
                           !.rateLimitMs = limits.maxRateLimit]

Abs(x) == IF x < 0 THEN 0 - x ELSE x

\* shouldAdjustConfig(newConfig)
shouldAdjustConfig_RateOnly(m, newConfig) ==
    Abs(newConfig.rateLimitMs - m.currentConfig.rateLimitMs) > 50 * RateScale
shouldAdjustConfig(m, newConfig) ==
    \/ newConfig.maxConcurrent # m.currentConfig.maxConcurrent
    \/ Abs(newConfig.rateLimitMs - m.currentConfig.rateLimitMs) > 50 * RateScale

\* adjustConcurrency(newConfig)
adjustConcurrency(m, newConfig, t) ==
    [m EXCEPT !.currentConfig = newConfig, !.lastAdjustment = t]

\* considerAdjustment()
considerAdjustment_NoCooldown(m, t) ==
    LET newConfig == calculateOptimalConfig(m, evaluateNetworkCondition(m))
    IN IF shouldAdjustConfig(m, newConfig) THEN adjustConcurrency(m, newConfig, t) ELSE m

considerAdjustment(m, t) ==
    IF t - m.lastAdjustment < Cooldown THEN m
    ELSE LET newConfig == calculateOptimalConfig(m, evaluateNetworkCondition(m))
         IN IF shouldAdjustConfig(m, newConfig) THEN adjustConcurrency(m, newConfig, t) ELSE m

\* recordMetrics(metrics): push, keep the last maxMetricsHistory samples,
\* considerAdjustment()
recordMetrics(m, sample, t) ==
    LET pushed == Append(m.metrics, sample)
        kept   == IF Len(pushed) > MaxMetricsHistory
                  THEN SubSeq(pushed, Len(pushed) - MaxMetricsHistory + 1, Len(pushed))
                  ELSE pushed
    IN considerAdjustment([m EXCEPT !.metrics = kept], t)

\* handleDegradedPerformance(condition)
handleDegradedPerformance(m, condition) ==
    LET profile == SERVICE_PROFILES[m.service]
    IN IF condition.status = "critical"
       THEN [m EXCEPT !.currentConfig =
                [profile.baseConfig EXCEPT !.maxConcurrent = 1,
                                           !.rateLimitMs = profile.limits.maxRateLimit]]
       ELSE m

\* the callback of the setInterval started by startHealthCheck()
healthCheck_ClampsAlways(m, t) ==
    handleDegradedPerformance(m, [evaluateNetworkCondition(m) EXCEPT !.status = "critical"])

healthCheck_RespectsCooldown(m, t) ==
    LET condition == evaluateNetworkCondition(m)
    IN IF condition.status \in {"critical", "poor"} /\ ~(t - m.lastAdjustment < Cooldown)
       THEN handleDegradedPerformance(m, condition)
       ELSE m

healthCheck(m, t) ==
    LET condition == evaluateNetworkCondition(m)
    IN IF condition.status \in {"critical", "poor"}
       THEN handleDegradedPerformance(m, condition)
       ELSE m

\* reset()
reset(m, t) ==
    [m EXCEPT !.currentConfig = SERVICE_PROFILES[m.service].baseConfig,
              !.metrics = << >>,
              !.lastAdjustment = t]

\* dispose() of the manager: clearInterval(healthCheckTimer)
disposeManager(m) == [m EXCEPT !.healthCheckTimer = NoTimer]


(***************************************************************************)
(* RateLimiter                                                             *)
(***************************************************************************)
MaxRequests == 2          \* largest maxRequests a limiter is built with
MaxCallers == 2           \* callers of waitForSlot() that may be active at once
MaxLimiterTicks == 3      \* advances of the limiter's clock in one behaviour
WindowMs == 1000
LimiterTickSteps == {500}
Callers == 1..MaxCallers

\* new RateLimiter(maxRequests, windowMs).  clock is Date.now() in ms since
\* the construction; pc and wakeAt are the callers' positions in waitForSlot
\* (wakeAt: when the delay a caller awaits is over); granted is the list of
\* the times at which a slot was granted and status the last getStatus().
NewLimiter(maxRequests, windowMs) ==
    [ maxRequests |-> maxRequests,
      windowMs    |-> windowMs,
      requests    |-> << >>,
      clock       |-> 0,
      ticks       |-> 0,
      pc          |-> [c \in Callers |-> "idle"],
      wakeAt      |-> [c \in Callers |-> 0],
      granted     |-> << >>,
      status      |-> [current |-> 0, max |-> maxRequests, resetIn |-> 0] ]

\* this.requests.filter(time => now - time < this.windowMs)
RECURSIVE filterRequests(_, _, _)
filterRequests(requests, t, windowMs) ==
    IF requests = << >> THEN << >>
    ELSE IF t - Head(requests) < windowMs
         THEN <<Head(requests)>> \o filterRequests(Tail(requests), t, windowMs)
         ELSE filterRequests(Tail(requests), t, windowMs)

\* the test `this.requests.length < this.maxRequests`
hasSlot_OffByOne(l, requests) == Len(requests) <= l.maxRequests

hasSlot(l, requests) == Len(requests) < l.maxRequests

\* one pass of the loop of waitForSlot() for caller c: filter, then either
\* push the timestamp and return, or await delay(min(waitTime + 100, 1000))
waitForSlot(l, c) ==
    LET t        == l.clock
        requests == filterRequests(l.requests, t, l.windowMs)
    IN IF hasSlot(l, requests)
       THEN [l EXCEPT !.requests = Append(requests, t),
                      !.granted = Append(@, t),
                      !.pc[c] = "idle"]
       ELSE LET oldestRequest == requests[1]
                waitTime      == (oldestRequest + l.windowMs) - t
            IN [l EXCEPT !.requests = requests,
                         !.pc[c] = "delay",
                         !.wakeAt[c] = t + Min(waitTime + 100, 1000)]

\* getStatus() of the limiter
getLimiterStatus(l) ==
    LET t        == l.clock
        requests == filterRequests(l.requests, t, l.windowMs)
        resetIn  == IF requests # << >>
                    THEN (requests[1] + l.windowMs) - t ELSE 0
    IN [l EXCEPT !.requests = requests,
                 !.status = [current |-> Len(requests), max |-> l.maxRequests,
                             resetIn |-> IF resetIn > 0 THEN resetIn ELSE 0]]


(***************************************************************************)
(* Actions: PromisePool used on its own                                    *)
(***************************************************************************)
NextId == IF InStage(pool, "new") = {} THEN 0
          ELSE CHOOSE i \in InStage(pool, "new") : \A j \in InStage(pool, "new") : i <= j

\* pool.add(fn, priority)
Add(priority) ==
    /\ proc.pc = "idle"
    /\ NextId # 0
    /\ pool' = add(submittedBy(begin(pool), <<NextId>>), NextId, priority)
    /\ UNCHANGED <<waiter, proc, svc, cache, manager, limiter, now>>

\* pool.addAll(tasks) with n tasks
AddAll(n) ==
    /\ proc.pc = "idle"
    /\ NextId # 0
    /\ NextId + n - 1 <= MaxOps
    /\ LET ids == [k \in 1..n |-> NextId + k - 1]
       IN pool' = addAll(submittedBy(begin(pool), ids), ids)
    /\ UNCHANGED <<waiter, proc, svc, cache, manager, limiter, now>>

\* the delay(rateLimitMs) timer of a dispatched operation fires: item.fn() is invoked
DelayElapsed ==
    /\ proc.pc # "continue"
    /\ NextDelayed(pool) # 0
    /\ pool' = [begin(pool) EXCEPT !.stage[NextDelayed(pool)] = "exec"]
    /\ proc' = invokeTasks(proc, pool, pool')
    /\ UNCHANGED <<waiter, svc, cache, manager, limiter, now>>

\* the promise returned by item.fn() settles
Settle(id, ok) ==
    /\ proc.pc = "idle"
    /\ pool.stage[id] = "exec"
    /\ pool' = settle(begin(pool), id, ok)
    /\ UNCHANGED <<waiter, proc, svc, cache, manager, limiter, now>>

\* waitForAll(): the loop condition is tested at the call and after every delay(100)
poolIdle(p) == ~(p.running > 0 \/ Len(p.queue) > 0)

WaitForAll ==
    /\ proc.pc = "idle"
    /\ waiter = "none"
    /\ waiter' = IF poolIdle(pool) THEN "resolved" ELSE "polling"
    /\ UNCHANGED <<pool, proc, svc, cache, manager, limiter, now>>

WaitPoll ==
    /\ waiter = "polling"
    /\ waiter' = IF poolIdle(pool) THEN "resolved" ELSE "polling"
    /\ UNCHANGED <<pool, proc, svc, cache, manager, limiter, now>>

\* a row of the stored table: the entry set(u, v) made at time t
StoredRow(u, v, t) ==
    [key |-> KeyOfTuple(u),
     entry |-> [originalText |-> u.text, translatedText |-> v, fromLang |-> u.from,
                toLang |-> u.to, timestamp |-> t, hitCount |-> 0, service |-> u.service]]

IdleCache == NewCache(NoItem, StartTime)
\* the cache of a session that finds a translation of "Hello", saved by an
\* earlier translate() call, in storage
WarmCache ==
    NewCache(Item(<< StoredRow([text |-> TextHello, from |-> "en", to |-> "ja",
                                service |-> "google"], "v1", StartTime - CleanupInterval) >>),
             StartTime)
IdleManager == NewManager("google", NoInitialConfig, StartTime)
IdleLimiter == NewLimiter(1, WindowMs)

InitPool ==
    /\ \E maxConcurrent \in 0..MaxConcurrent, rateLimitMs \in {0, 200} :
          /\ pool = NewPool(maxConcurrent, rateLimitMs)
          /\ proc = NewProcessor(FALSE, maxConcurrent)
    /\ waiter = "none"
    /\ svc = NewService("none")
    /\ cache = IdleCache
    /\ manager = IdleManager
    /\ limiter = IdleLimiter
    /\ now = StartTime

NextPool ==
    \/ \E priority \in 0..MaxPriority : Add(priority)
    \/ \E n \in 1..MaxOps : AddAll(n)
    \/ DelayElapsed
    \/ \E id \in OpIds, ok \in BOOLEAN : Settle(id, ok)
    \/ WaitForAll
    \/ WaitPoll

SpecPool == InitPool /\ [][NextPool]_vars

\* every started operation settles, every timer fires
SpecPoolFair ==
    /\ SpecPool
    /\ WF_vars(DelayElapsed)
    /\ WF_vars(\E id \in OpIds, ok \in BOOLEAN : Settle(id, ok))
    /\ WF_vars(WaitPoll)

(***************************************************************************)
(* Actions: PromisePool with operations of known duration.  The clock is   *)
(* in units of the shortest duration and starts at 0 when the pool is      *)
(* built; an operation of duration d settles d after item.fn() is invoked. *)
(***************************************************************************)
TimedIds(p) == DOMAIN p.stage

\* new PromisePool(maxConcurrent, 0), about to receive n operations; duration[i]
\* is the time the promise of operation i takes to settle
NewTimedPool(maxConcurrent, n, duration) ==
    [ maxConcurrent |-> maxConcurrent,
      rateLimitMs   |-> 0,
      running       |-> 0,
      queue         |-> <<>>,
      stage         |-> [i \in 1..n |-> "new"],
      callOf        |-> [i \in 1..n |-> 0],
      dispatched    |-> <<>>,
      justDispatched |-> <<>>,
      duration      |-> duration,
      startedAt     |-> [i \in 1..n |-> -1],     \* when item.fn() was invoked
      settledAt     |-> [i \in 1..n |-> -1] ]    \* when its promise settled

\* the operations whose item.fn() was invoked in the run that led from p to q
\* start at time t
started(p, q, t) ==
    [q EXCEPT !.startedAt = [i \in TimedIds(q) |->
                                IF q.stage[i] = "exec" /\ p.stage[i] # "exec"
                                THEN t ELSE @[i]]]

\* the time the promise of a running operation settles
dueAt(p, i) == p.startedAt[i] + p.duration[i]

\* pool.addAll(tasks) with all the operations, at time 0
TimedAddAll ==
    /\ \A i \in TimedIds(pool) : pool.stage[i] = "new"
    /\ LET ids == [k \in 1..Cardinality(TimedIds(pool)) |-> k]
       IN pool' = started(pool, addAll(begin(pool), ids), now)
    /\ UNCHANGED <<waiter, proc, svc, cache, manager, limiter, now>>

\* the promise of operation id settles, duration[id] after its start
TimedSettle(id, ok) ==
    /\ pool.stage[id] = "exec"
    /\ dueAt(pool, id) = now
    /\ pool' = started(pool,
                       [settle(begin(pool), id, ok) EXCEPT !.settledAt[id] = now],
                       now)
    /\ UNCHANGED <<waiter, proc, svc, cache, manager, limiter, now>>

\* nothing is due: time passes until the next promise settles
TimePasses ==
    /\ \E i \in TimedIds(pool) : pool.stage[i] = "exec"
    /\ \A i \in TimedIds(pool) : pool.stage[i] = "exec" => dueAt(pool, i) > now
    /\ now' = CHOOSE t \in {dueAt(pool, i) : i \in {j \in TimedIds(pool) : pool.stage[j] = "exec"}} :
                 \A i \in TimedIds(pool) : pool.stage[i] = "exec" => t <= dueAt(pool, i)
    /\ UNCHANGED <<pool, waiter, proc, svc, cache, manager, limiter>>

InitPoolTimed ==
    /\ \E maxConcurrent \in 1..MaxConcurrent, n \in 1..MaxTimedOps :
          \E duration \in [1..n -> 1..MaxDuration] :
              pool = NewTimedPool(maxConcurrent, n, duration)
    /\ proc = NewProcessor(FALSE, 1)
    /\ waiter = "none"
    /\ svc = NewService("none")
    /\ cache = IdleCache
    /\ manager = IdleManager
    /\ limiter = IdleLimiter
    /\ now = 0

NextPoolTimed ==
    \/ TimedAddAll
    \/ \E id \in 1..MaxTimedOps, ok \in BOOLEAN : id \in TimedIds(pool) /\ TimedSettle(id, ok)
    \/ TimePasses

SpecPoolTimed == InitPoolTimed /\ [][NextPoolTimed]_vars

(***************************************************************************)
(* Actions: translateSmartBatch and batchTranslate                         *)
(***************************************************************************)
\* processor.translateSmartBatch(items, translator) on a processor of its own
TranslateSmartBatch(items) ==
    /\ svc.name = "none"
    /\ proc.pc = "idle"
    /\ LET r == startSmartBatch(proc, begin(pool), items)
       IN pool' = r.pool /\ proc' = r.proc
    /\ UNCHANGED <<waiter, svc, cache, manager, limiter, now>>

\* service.batchTranslate(request) up to its await of translateSmartBatch
BatchTranslate(entries) ==
    /\ svc.name # "none"
    /\ svc.pc = "idle"
    /\ proc.pc = "idle"
    /\ LET r == startSmartBatch(proc, begin(pool), entries)
       IN pool' = r.pool /\ proc' = r.proc
    /\ svc' = [svc EXCEPT !.pc = "awaiting"]
    /\ UNCHANGED <<waiter, cache, manager, limiter, now>>

\* translator(text) of a running task settles; the task finishes, the pool
\* settles the task's future and dispatches the next one; when the last task
\* of the batch is done, Promise.all is fulfilled
TranslatorSettles(id, out) ==
    /\ proc.pc \in {"awaitBatch", "rejected"}
    /\ id <= Len(proc.tasks)
    /\ pool.stage[id] = "exec"
    /\ out \in wrappedOutcomes(proc.adaptive)
    /\ LET r  == runTask(proc, id, out)
           p1 == settle(begin(pool), id, ~r.threw)
           pr == invokeTasks(r.proc, pool, p1)
           allDone == \A k \in 1..Len(pr.batches[pr.batch]) :
                          p1.stage[pr.batches[pr.batch][k]] = "resolved"
       IN /\ pool' = p1
          /\ proc' = [pr EXCEPT !.pc = IF r.threw THEN "rejected"
                                       ELSE IF @ = "awaitBatch" /\ allDone THEN "continue"
                                       ELSE @]
    /\ UNCHANGED <<waiter, svc, cache, manager, limiter, now>>

\* the continuation of `await this.pool.addAll(...)`: next batch, or return
ContinueAfterBatch ==
    /\ proc.pc = "continue"
    /\ LET r == loopStep(proc, begin(pool))
       IN pool' = r.pool /\ proc' = r.proc
    /\ UNCHANGED <<waiter, svc, cache, manager, limiter, now>>

\* the continuation of batchTranslate's await: convert the result map
BatchTranslateFinish ==
    /\ svc.pc = "awaiting"
    /\ proc.pc = "returned"
    /\ svc' = [svc EXCEPT !.pc = "done",
                          !.result = convertResults(svc.name, proc.items, proc.results)]
    /\ UNCHANGED <<pool, waiter, proc, cache, manager, limiter, now>>

\* how the processors are constructed: performanceTest.ts builds
\* new ParallelTranslationProcessor(maxConcurrent, 50); the services build
\* createAdaptiveParallelProcessor(service, n, ms)
Constructions ==
    { [service |-> "none", adaptive |-> FALSE, maxConcurrent |-> m, rateLimitMs |-> r] :
         m \in 1..MaxConcurrent, r \in {0, 50} }
    \cup { [service |-> "google", adaptive |-> TRUE, maxConcurrent |-> 3, rateLimitMs |-> 200],
           [service |-> "gemini", adaptive |-> TRUE, maxConcurrent |-> 5, rateLimitMs |-> 300],
           [service |-> "libretranslate", adaptive |-> TRUE, maxConcurrent |-> 2,
            rateLimitMs |-> 500] }

InitBatch ==
    /\ \E c \in Constructions :
          /\ pool = NewPool(c.maxConcurrent, c.rateLimitMs)
          /\ proc = NewProcessor(c.adaptive, c.maxConcurrent)
          /\ svc = NewService(c.service)
          /\ manager = IF c.adaptive
                       THEN NewManager(c.service, InitialConfig(c.maxConcurrent, c.rateLimitMs),
                                       StartTime)
                       ELSE IdleManager
    /\ limiter = IdleLimiter
    /\ waiter = "none"
    /\ cache \in {IdleCache, WarmCache}
    /\ now = StartTime

NextBatch ==
    \/ \E items \in ItemLists : TranslateSmartBatch(items)
    \/ \E entries \in ItemLists : BatchTranslate(entries)
    \/ DelayElapsed
    \/ \E id \in OpIds, out \in {"ok", "fail", "typeerror"} : TranslatorSettles(id, out)
    \/ ContinueAfterBatch
    \/ BatchTranslateFinish

SpecBatch == InitBatch /\ [][NextBatch]_vars

(***************************************************************************)
(* Actions: TranslationCache                                               *)
(***************************************************************************)
SetItemOutcomes == {"ok", "quota", "error"}

\* bookkeeping of the calls made so far: lastSet[u] is the value of the latest
\* set() of tuple u, forgotten when the table is cleared or when the entry
\* under u's key is removed (evicted, expired or purged); lastOp is the call
\* just made
track(cOld, cNew, lastSet, lastOp) ==
    [cNew EXCEPT
        !.ops = cOld.ops + 1,
        !.lastOp = lastOp,
        !.lastSet = [u \in CacheTuples |->
                        IF KeyOfTuple(u) \in KeysOf(cOld.memoryCache) \ KeysOf(cNew.memoryCache)
                        THEN Null ELSE lastSet[u]]]

CacheSet(u, v) ==
    /\ cache.ops < MaxCacheOps
    /\ cache' = track(cache, set(cache, now, u.text, v, u.from, u.to, u.service),
                      [cache.lastSet EXCEPT ![u] = Found(v)],
                      [op |-> "set", tuple |-> u, result |-> Null])
    /\ UNCHANGED <<pool, waiter, proc, svc, manager, limiter, now>>

CacheGet(u) ==
    /\ cache.ops < MaxCacheOps
    /\ LET r == get(cache, now, u.text, u.from, u.to, u.service)
       IN cache' = track(cache, r.cache, cache.lastSet,
                         [op |-> "get", tuple |-> u, result |-> r.result])
    /\ UNCHANGED <<pool, waiter, proc, svc, manager, limiter, now>>

CacheClear ==
    /\ cache.ops < MaxCacheOps
    /\ cache' = track(cache, clear(cache), [u \in CacheTuples |-> Null],
                      [op |-> "clear", tuple |-> NoTuple, result |-> Null])
    /\ UNCHANGED <<pool, waiter, proc, svc, manager, limiter, now>>

CacheDispose(setOutcome) ==
    /\ cache.ops < MaxCacheOps
    /\ cache' = track(cache, dispose(cache, now, setOutcome), cache.lastSet,
                      [op |-> "dispose", tuple |-> NoTuple, result |-> Null])
    /\ UNCHANGED <<pool, waiter, proc, svc, manager, limiter, now>>

\* the debounce timer fires: saveToStorage()
SaveTimerFires(setOutcome) ==
    /\ cache.saveTimer.armed
    /\ now >= cache.saveTimer.due
    /\ cache' = [track(cache, saveToStorage([cache EXCEPT !.saveTimer = NoTimer], now, setOutcome),
                       cache.lastSet, cache.lastOp) EXCEPT !.ops = cache.ops]
    /\ UNCHANGED <<pool, waiter, proc, svc, manager, limiter, now>>

\* the hourly interval timer fires: clearOldEntries()
CleanupTimerFires(setOutcome) ==
    /\ cache.cleanupTimer.armed
    /\ now >= cache.cleanupTimer.due
    /\ cache' = [track(cache,
                       clearOldEntries([cache EXCEPT !.cleanupTimer.due = now + CleanupInterval],
                                       now, setOutcome),
                       cache.lastSet, cache.lastOp) EXCEPT !.ops = cache.ops]
    /\ UNCHANGED <<pool, waiter, proc, svc, manager, limiter, now>>

\* time passes (timers may fire late, never early)
Tick(d) ==
    /\ cache.ticks < MaxTicks
    /\ now' = now + d
    /\ cache' = [cache EXCEPT !.ticks = @ + 1]
    /\ UNCHANGED <<pool, waiter, proc, svc, manager, limiter>>

\* what localStorage may hold when the cache is constructed: nothing, or a
\* table saved by an earlier session
StoredItems ==
    { NoItem,
      Item(<< StoredRow([text |-> TextHello, from |-> "en", to |-> "ja", service |-> "google"],
                        "v1", StartTime - CleanupInterval),
              StoredRow([text |-> TextHello, from |-> "en", to |-> "ko", service |-> NoService],
                        "v2", StartTime - TTL) >>) }

InitCache ==
    /\ \E stored \in StoredItems : cache = NewCache(stored, StartTime)
    /\ now = StartTime
    /\ pool = NewPool(1, 0)
    /\ proc = NewProcessor(FALSE, 1)
    /\ waiter = "none"
    /\ svc = NewService("none")
    /\ manager = IdleManager
    /\ limiter = IdleLimiter

NextCache ==
    \/ \E u \in CacheTuples, v \in CacheValues : CacheSet(u, v)
    \/ \E u \in CacheTuples : CacheGet(u)
    \/ CacheClear
    \/ \E o \in SetItemOutcomes : CacheDispose(o)
    \/ \E o \in SetItemOutcomes : SaveTimerFires(o)
    \/ \E o \in SetItemOutcomes : CleanupTimerFires(o)
    \/ \E d \in TickSteps : Tick(d)

SpecCache == InitCache /\ [][NextCache]_vars

\* the same cache with fewer calls per behaviour and one translated value
NextCacheShort ==
    \/ cache.ops < MaxShortOps /\ \E u \in CacheTuples : CacheSet(u, "v1")
    \/ cache.ops < MaxShortOps /\ \E u \in CacheTuples : CacheGet(u)
    \/ cache.ops < MaxShortOps /\ CacheClear
    \/ cache.ops < MaxShortOps /\ \E o \in SetItemOutcomes : CacheDispose(o)
    \/ \E o \in SetItemOutcomes : SaveTimerFires(o)
    \/ \E o \in SetItemOutcomes : CleanupTimerFires(o)
    \/ \E d \in TickSteps : Tick(d)

SpecCacheShort == InitCache /\ [][NextCacheShort]_vars

(***************************************************************************)
(* Actions: createSmartBatches applied to the task list of a call          *)
(***************************************************************************)
\* texts on both sides of the text size createSmartBatches looks for (500),
\* two of which together make exactly the batch size it looks for (1000)
Text500 == X100 \o X100 \o X100 \o X100 \o X100
Text500b == "b" \o X100 \o X100 \o X100 \o X100 \o X10 \o X10 \o X10 \o X10 \o X10
                \o X10 \o X10 \o X10 \o X10 \o "xxxxxxxxx"
Text501 == "c" \o Text500
Text700 == X600 \o X100
BatchTexts == <<TextHello, Text500, Text500b, Text501, TextBigA, Text700>>

\* the entries of a call in which BatchTexts[i] occurs usage[i] times
RECURSIVE itemsWith(_, _)
itemsWith(usage, i) ==
    IF i > Len(BatchTexts) THEN <<>>
    ELSE [j \in 1..usage[i] |-> [key |-> KeyOf(10 * i + j), text |-> BatchTexts[i]]]
         \o itemsWith(usage, i + 1)

\* translateSmartBatch has built and sorted its tasks: createSmartBatches(translationTasks)
CreateBatches ==
    /\ proc.pc = "idle"
    /\ proc' = [proc EXCEPT !.pc = "batched",
                            !.batches = createSmartBatches(proc.tasks, proc.maxConcurrent)]
    /\ UNCHANGED <<pool, waiter, svc, cache, manager, limiter, now>>

InitBatches ==
    /\ \E maxConcurrent \in 1..MaxConcurrent :
          \E usage \in [1..Len(BatchTexts) -> 0..MaxUsage] :
              /\ pool = NewPool(maxConcurrent, 0)
              /\ proc = [NewProcessor(FALSE, maxConcurrent) EXCEPT
                            !.items = itemsWith(usage, 1),
                            !.tasks = translationTasks(itemsWith(usage, 1))]
    /\ waiter = "none"
    /\ svc = NewService("none")
    /\ cache = IdleCache
    /\ manager = IdleManager
    /\ limiter = IdleLimiter
    /\ now = StartTime

NextBatches == CreateBatches

SpecBatches == InitBatches /\ [][NextBatches]_vars

(***************************************************************************)
(* Actions: bursts of set() calls.  lastOp.burst holds the keys set since  *)
(* the debounce timer was last armed from rest.                            *)
(***************************************************************************)
\* the debounce timer is pending and not yet due: a set() now continues the burst
InBurst(c, t) == c.saveTimer.armed /\ t < c.saveTimer.due

BurstSet(u) ==
    /\ cache.ops < MaxShortOps
    /\ cache' = track(cache, set(cache, now, u.text, "v1", u.from, u.to, u.service),
                      [cache.lastSet EXCEPT ![u] = Found("v1")],
                      [op |-> "set", tuple |-> u, result |-> Null,
                       burst |-> (IF InBurst(cache, now) THEN cache.lastOp.burst ELSE {})
                                    \cup {KeyOfTuple(u)}])
    /\ UNCHANGED <<pool, waiter, proc, svc, manager, limiter, now>>

InitDebounce ==
    /\ \E stored \in StoredItems :
          cache = [NewCache(stored, StartTime) EXCEPT
                      !.lastOp = [op |-> "none", tuple |-> NoTuple, result |-> Null,
                                  burst |-> {}]]
    /\ now = StartTime
    /\ pool = NewPool(1, 0)
    /\ proc = NewProcessor(FALSE, 1)
    /\ waiter = "none"
    /\ svc = NewService("none")
    /\ manager = IdleManager
    /\ limiter = IdleLimiter

NextDebounce ==
    \/ \E u \in CacheTuples : BurstSet(u)
    \/ \E o \in SetItemOutcomes : SaveTimerFires(o)
    \/ \E o \in SetItemOutcomes : CleanupTimerFires(o)
    \/ \E d \in TickSteps : Tick(d)

SpecDebounce == InitDebounce /\ [][NextDebounce]_vars

(***************************************************************************)
(* Actions: AdaptiveConcurrencyManager                                     *)
(***************************************************************************)
\* adaptiveManager.recordMetrics(sample)
ManagerRecordMetrics(sample) ==
    /\ manager' = [recordMetrics(manager, sample, now) EXCEPT
                      !.lastOp = [op |-> "recordMetrics", before |-> manager.currentConfig]]
    /\ UNCHANGED <<pool, waiter, proc, svc, cache, limiter, now>>

\* the health-check interval timer fires
HealthCheckFires ==
    /\ manager.healthCheckTimer.armed
    /\ now >= manager.healthCheckTimer.due
    /\ manager' = [healthCheck(manager, now) EXCEPT
                      !.healthCheckTimer.due = now + manager.currentConfig.healthCheckInterval,
                      !.lastOp = [op |-> "healthCheck", before |-> manager.currentConfig]]
    /\ UNCHANGED <<pool, waiter, proc, svc, cache, limiter, now>>

\* adaptiveManager.reset()
ManagerReset ==
    /\ manager' = [reset(manager, now) EXCEPT
                      !.lastOp = [op |-> "reset", before |-> manager.currentConfig]]
    /\ UNCHANGED <<pool, waiter, proc, svc, cache, limiter, now>>

\* adaptiveManager.dispose()
ManagerDispose ==
    /\ manager.healthCheckTimer.armed
    /\ manager' = [disposeManager(manager) EXCEPT
                      !.lastOp = [op |-> "dispose", before |-> manager.currentConfig]]
    /\ UNCHANGED <<pool, waiter, proc, svc, cache, limiter, now>>

\* time passes
ManagerTick(d) ==
    /\ manager.ticks < MaxManagerTicks
    /\ now' = now + d
    /\ manager' = [manager EXCEPT !.ticks = @ + 1]
    /\ UNCHANGED <<pool, waiter, proc, svc, cache, limiter>>

\* how the managers are constructed: createAdaptiveParallelProcessor(service,
\* n, ms) in the three services, and the factory called without options
ManagerConstructions ==
    { [service |-> "google", initialConfig |-> InitialConfig(3, 200)],
      [service |-> "gemini", initialConfig |-> InitialConfig(5, 300)],
      [service |-> "libretranslate", initialConfig |-> InitialConfig(2, 500)] }
    \cup { [service |-> n, initialConfig |-> NoInitialConfig] : n \in ServiceNames }

InitManager ==
    /\ \E c \in ManagerConstructions : manager = NewManager(c.service, c.initialConfig, StartTime)
    /\ limiter = IdleLimiter
    /\ now = StartTime
    /\ pool = NewPool(1, 0)
    /\ proc = NewProcessor(FALSE, 1)
    /\ waiter = "none"
    /\ svc = NewService("none")
    /\ cache = IdleCache

NextManager ==
    \/ \E sample \in Samples : ManagerRecordMetrics(sample)
    \/ HealthCheckFires
    \/ ManagerReset
    \/ ManagerDispose
    \/ \E d \in ManagerTickSteps : ManagerTick(d)

SpecManager == InitManager /\ [][NextManager]_vars

(***************************************************************************)
(* Actions: the manager with calls inside and outside the cooldown         *)
(***************************************************************************)
\* the clock advances by a full cooldown or by one second less
CooldownTickSteps == {Cooldown - 1, Cooldown}

\* samples of an excellent and of a failing network
CooldownSamples == {SampleExcellent, SampleFailing}

\* adaptiveManager.recordMetrics(sample); lastOp also keeps the time since the
\* last adjustment that the call found
CooldownRecordMetrics(sample) ==
    /\ manager' = [recordMetrics(manager, sample, now) EXCEPT
                      !.lastOp = [op |-> "recordMetrics", before |-> manager.currentConfig,
                                  elapsed |-> now - manager.lastAdjustment]]
    /\ UNCHANGED <<pool, waiter, proc, svc, cache, limiter, now>>

CooldownTick(d) ==
    /\ manager.ticks < MaxCooldownTicks
    /\ now' = now + d
    /\ manager' = [manager EXCEPT !.ticks = @ + 1]
    /\ UNCHANGED <<pool, waiter, proc, svc, cache, limiter>>

NextCooldown ==
    \/ \E sample \in CooldownSamples : CooldownRecordMetrics(sample)
    \/ HealthCheckFires
    \/ ManagerReset
    \/ \E d \in CooldownTickSteps : CooldownTick(d)

\* the managers of the Google and the LibreTranslate service, as their
\* processors construct them
CooldownConstructions ==
    { [service |-> "google", initialConfig |-> InitialConfig(3, 200)],
      [service |-> "libretranslate", initialConfig |-> InitialConfig(2, 500)] }

InitCooldown ==
    /\ \E c \in CooldownConstructions :
          manager = NewManager(c.service, c.initialConfig, StartTime)
    /\ limiter = IdleLimiter
    /\ now = StartTime
    /\ pool = NewPool(1, 0)
    /\ proc = NewProcessor(FALSE, 1)
    /\ waiter = "none"
    /\ svc = NewService("none")
    /\ cache = IdleCache

SpecCooldown == InitCooldown /\ [][NextCooldown]_vars

(***************************************************************************)
(* Actions: the classification and the proposal of the manager, applied to *)
(* a history and a configuration chosen at the start                       *)
(***************************************************************************)
\* samples on and next to the thresholds of evaluateNetworkCondition
\* (response time in ms, error rate in percent)
ConditionSamples ==
    { [responseTime |-> 200,  errorRate |-> 0],
      [responseTime |-> 200,  errorRate |-> 2],
      [responseTime |-> 200,  errorRate |-> 4],
      [responseTime |-> 499,  errorRate |-> 1],
      [responseTime |-> 500,  errorRate |-> 0],
      [responseTime |-> 1500, errorRate |-> 5],
      [responseTime |-> 1501, errorRate |-> 0],
      [responseTime |-> 1000, errorRate |-> 6],
      [responseTime |-> 2000, errorRate |-> 6],
      [responseTime |-> 3000, errorRate |-> 15],
      [responseTime |-> 3001, errorRate |-> 0],
      [responseTime |-> 1000, errorRate |-> 16],
      [responseTime |-> 1000, errorRate |-> 30],
      [responseTime |-> 1000, errorRate |-> 31] }

\* the sample recorded before the ones above, if any
OlderSamples == {SampleExcellent, SampleFailing}

\* the configurations within the limits of a profile: the ends and the base
\* value of either field
ConfigsWithin(service) ==
    LET profile == SERVICE_PROFILES[service]
    IN { [profile.baseConfig EXCEPT !.maxConcurrent = mc, !.rateLimitMs = r] :
            mc \in {profile.limits.minConcurrent, profile.baseConfig.maxConcurrent,
                    profile.limits.maxConcurrent},
            r \in {profile.limits.minRateLimit, profile.baseConfig.rateLimitMs,
                   profile.limits.maxRateLimit} }

\* manager.evaluateNetworkCondition(), then calculateOptimalConfig(condition)
\* as considerAdjustment calls it
Evaluate ==
    /\ manager.lastOp.op = "none"
    /\ LET condition == evaluateNetworkCondition(manager)
       IN manager' = [manager EXCEPT !.lastOp =
                         [op |-> "evaluate", before |-> manager.currentConfig,
                          condition |-> condition,
                          proposal |-> calculateOptimalConfig(manager, condition)]]
    /\ UNCHANGED <<pool, waiter, proc, svc, cache, limiter, now>>

InitCondition ==
    /\ \E service \in ServiceNames :
          \E config \in ConfigsWithin(service),
             older \in {<< >>} \cup {<<sample>> : sample \in OlderSamples},
             recent \in UNION {[1..n -> ConditionSamples] : n \in 0..MetricsWindow} :
              manager = [NewManager(service, NoInitialConfig, StartTime) EXCEPT
                            !.currentConfig = config,
                            !.lastOp.before = config,
                            !.metrics = older \o recent]
    /\ now = StartTime
    /\ pool = NewPool(1, 0)
    /\ proc = NewProcessor(FALSE, 1)
    /\ waiter = "none"
    /\ svc = NewService("none")
    /\ cache = IdleCache
    /\ limiter = IdleLimiter

NextCondition == Evaluate

SpecCondition == InitCondition /\ [][NextCondition]_vars

(***************************************************************************)
(* Actions: RateLimiter                                                    *)
(***************************************************************************)
\* a caller calls waitForSlot(): the first pass of the loop runs at once
LimiterWaitForSlot(c) ==
    /\ limiter.pc[c] = "idle"
    /\ limiter' = waitForSlot(limiter, c)
    /\ UNCHANGED <<pool, waiter, proc, svc, cache, manager, now>>

\* the delay a caller awaits is over: the next pass of the loop
LimiterDelayElapsed(c) ==
    /\ limiter.pc[c] = "delay"
    /\ limiter.clock >= limiter.wakeAt[c]
    /\ limiter' = waitForSlot(limiter, c)
    /\ UNCHANGED <<pool, waiter, proc, svc, cache, manager, now>>

\* limiter.getStatus()
LimiterGetStatus ==
    /\ limiter' = getLimiterStatus(limiter)
    /\ UNCHANGED <<pool, waiter, proc, svc, cache, manager, now>>

\* time passes (a delay may end late, never early)
LimiterTick(d) ==
    /\ limiter.ticks < MaxLimiterTicks
    /\ limiter' = [limiter EXCEPT !.clock = @ + d, !.ticks = @ + 1]
    /\ UNCHANGED <<pool, waiter, proc, svc, cache, manager, now>>

InitLimiter ==
    /\ \E maxRequests \in 1..MaxRequests : limiter = NewLimiter(maxRequests, WindowMs)
    /\ now = StartTime
    /\ pool = NewPool(1, 0)
    /\ proc = NewProcessor(FALSE, 1)
    /\ waiter = "none"
    /\ svc = NewService("none")
    /\ cache = IdleCache
    /\ manager = IdleManager

NextLimiter ==
    \/ \E c \in Callers : LimiterWaitForSlot(c)
    \/ \E c \in Callers : LimiterDelayElapsed(c)
    \/ LimiterGetStatus
    \/ \E d \in LimiterTickSteps : LimiterTick(d)

SpecLimiter == InitLimiter /\ [][NextLimiter]_vars

(***************************************************************************)
(* AdaptiveParallelTranslationProcessor: the processor, its manager and    *)
(* their timers                                                            *)
(***************************************************************************)
MaxRuns == 2                              \* translateSmartBatch calls in one behaviour
MetricsInterval == 3000 \div MsPerUnit    \* setInterval(..., 3000) of startMetricsCollection

AdaptiveTexts == <<TextHello, TextWorld, TextFormat, TextBigA>>
\* the item lists of the calls: n items with n different texts
AdaptiveItemLists ==
    { [i \in 1..n |-> [key |-> KeyOf(i), text |-> AdaptiveTexts[i]]] :
         n \in 0..Min(MaxItems, Len(AdaptiveTexts)) }

NoConfig == [maxConcurrent |-> 0, rateLimitMs |-> 0, backoffFactor |-> 0,
             healthCheckInterval |-> 0]
NewSession(t) ==
    [totalRequests |-> 0, successfulRequests |-> 0, failedRequests |-> 0, startTime |-> t]

\* new AdaptiveParallelTranslationProcessor(service, initialConcurrency,
\* rateLimitMs): the fields of the base class, currentSession, and the
\* interval timer of startMetricsCollection(), whose handle is not kept.
\* Bookkeeping: lastConfig is the configuration that the latest wrapped call
\* read from the manager, translatorCalls the tasks for which the caller's
\* translator was invoked, runs the translateSmartBatch calls made so far,
\* disposed whether dispose() was called.
NewAdaptiveProcessor(maxConcurrent, t) ==
    LET base == NewProcessor(TRUE, maxConcurrent)
    IN [ pc              |-> base.pc,
         adaptive        |-> base.adaptive,
         maxConcurrent   |-> base.maxConcurrent,
         items           |-> base.items,
         tasks           |-> base.tasks,
         batches         |-> base.batches,
         batch           |-> base.batch,
         results         |-> base.results,
         completed       |-> base.completed,
         progress        |-> base.progress,
         outcome         |-> base.outcome,
         calls           |-> base.calls,
         stats           |-> base.stats,
         currentSession  |-> NewSession(t),
         metricsTimer    |-> [armed |-> TRUE, due |-> t + MetricsInterval],
         lastConfig      |-> NoConfig,
         translatorCalls |-> <<>>,
         runs            |-> 0,
         disposed        |-> FALSE ]

\* getCurrentConfig(): a copy of the manager's configuration
getCurrentConfig(m) == m.currentConfig

\* updateProcessorConfig(config):
\*     (this.pool as any).maxConcurrent = config.maxConcurrent
\*     (this.pool as any).rateLimitMs = config.rateLimitMs
\* is one statement (see wrappedOutcomes): the call of the number
\* config.maxConcurrent throws before either field of the pool is written
updateProcessorConfig(p, config) == [threw |-> TRUE, pool |-> p]

\* the wrapped translator is called for task id, up to its first await:
\* totalRequests++, the configuration is read and copied, the caller's
\* translator is invoked; on a throw the catch block counts the failure
wrapTranslatorWithMetrics(pr, p, m, id) ==
    LET config == getCurrentConfig(m)
        u      == updateProcessorConfig(p, config)
        pr1    == [pr EXCEPT !.currentSession.totalRequests = @ + 1,
                             !.lastConfig = config]
    IN [pool |-> u.pool,
        proc |-> IF u.threw
                 THEN [pr1 EXCEPT !.currentSession.failedRequests = @ + 1]
                 ELSE [pr1 EXCEPT !.translatorCalls = Append(@, id)]]

\* collectAndReportMetrics(): nothing in the first second of a session; the
\* error rate of the session in percent; the average age of the requests in
\* requestStartTimes, which is empty whenever a timer runs (the wrapped call
\* enters and leaves the map in one run), hence the default of 500 ms
collectAndReportMetrics(pr, m, t) ==
    LET s         == pr.currentSession
        errorRate == IF s.totalRequests > 0
                     THEN (100 * s.failedRequests) \div s.totalRequests ELSE 0
    IN IF (t - s.startTime) * MsPerUnit < 1000 THEN m
       ELSE recordMetrics(m, [responseTime |-> 500, errorRate |-> errorRate], t)

(***************************************************************************)
(* Actions: AdaptiveParallelTranslationProcessor                           *)
(***************************************************************************)
\* processor.translateSmartBatch(items, translator) up to its first await;
\* the pool is idle at the call and its bookkeeping starts afresh
AdaptiveTranslateSmartBatch(items) ==
    /\ proc.pc \in {"idle", "returned"}
    /\ proc.runs < MaxRuns
    /\ LET pr == [proc EXCEPT !.currentSession = NewSession(now),
                              !.outcome = [i \in OpIds |-> "none"],
                              !.calls = <<>>,
                              !.runs = @ + 1]
           r  == startSmartBatch(pr, NewPool(pool.maxConcurrent, pool.rateLimitMs), items)
       IN pool' = r.pool /\ proc' = r.proc
    /\ UNCHANGED <<waiter, svc, cache, manager, limiter, now>>

\* the delay(rateLimitMs) timer of a dispatched operation fires: the task
\* calls the wrapped translator with its text
WrappedTranslatorCalled ==
    /\ proc.pc = "awaitBatch"
    /\ NextDelayed(pool) # 0
    /\ LET id == NextDelayed(pool)
           p1 == [begin(pool) EXCEPT !.stage[id] = "exec"]
           r  == wrapTranslatorWithMetrics(invokeTasks(proc, pool, p1), p1, manager, id)
       IN pool' = r.pool /\ proc' = r.proc
    /\ UNCHANGED <<waiter, svc, cache, manager, limiter, now>>

\* the interval timer of startMetricsCollection fires
MetricsTimerFires ==
    /\ proc.metricsTimer.armed
    /\ now >= proc.metricsTimer.due
    /\ manager' = [collectAndReportMetrics(proc, manager, now) EXCEPT
                      !.lastOp = [op |-> "collectMetrics", before |-> manager.currentConfig]]
    /\ proc' = [proc EXCEPT !.metricsTimer.due = now + MetricsInterval]
    /\ UNCHANGED <<pool, waiter, svc, cache, limiter, now>>

\* processor.dispose(): this.adaptiveManager.dispose()
AdaptiveDispose ==
    /\ ~proc.disposed
    /\ manager' = [disposeManager(manager) EXCEPT
                      !.lastOp = [op |-> "dispose", before |-> manager.currentConfig]]
    /\ proc' = [proc EXCEPT !.disposed = TRUE]
    /\ UNCHANGED <<pool, waiter, svc, cache, limiter, now>>

\* createAdaptiveParallelProcessor(service, n, ms) as the three services call it
AdaptiveConstructions ==
    { [service |-> "google", maxConcurrent |-> 3, rateLimitMs |-> 200],
      [service |-> "gemini", maxConcurrent |-> 5, rateLimitMs |-> 300],
      [service |-> "libretranslate", maxConcurrent |-> 2, rateLimitMs |-> 500] }

InitAdaptive ==
    /\ \E c \in AdaptiveConstructions :
          /\ pool = NewPool(c.maxConcurrent, c.rateLimitMs)
          /\ proc = NewAdaptiveProcessor(c.maxConcurrent, StartTime)
          /\ manager = NewManager(c.service, InitialConfig(c.maxConcurrent, c.rateLimitMs),
                                  StartTime)
    /\ svc = NewService("none")
    /\ limiter = IdleLimiter
    /\ waiter = "none"
    /\ cache = IdleCache
    /\ now = StartTime

\* a wrapped call that threw has rejected its promise, or the last task of a
\* batch has settled: the continuation runs before any timer or caller does
Quiet == InStage(pool, "exec") = {} /\ proc.pc # "continue"

NextAdaptive ==
    \/ \E items \in AdaptiveItemLists : Quiet /\ AdaptiveTranslateSmartBatch(items)
    \/ Quiet /\ WrappedTranslatorCalled
    \/ \E id \in OpIds : TranslatorSettles(id, "typeerror")
    \/ ContinueAfterBatch
    \/ Quiet /\ MetricsTimerFires
    \/ Quiet /\ HealthCheckFires
    \/ Quiet /\ AdaptiveDispose
    \/ \E d \in ManagerTickSteps : Quiet /\ ManagerTick(d)

SpecAdaptive == InitAdaptive /\ [][NextAdaptive]_vars

(***************************************************************************)
(* The manager under excellent samples only, one or more after every       *)
(* cooldown                                                                *)
(***************************************************************************)
MaxExcellentTicks == 6    \* cooldowns that pass in one behaviour

\* adaptiveManager.recordMetrics(sample) with an excellent sample
ExcellentSample ==
    /\ manager' = [recordMetrics(manager, SampleExcellent, now) EXCEPT
                      !.lastOp = [op |-> "recordMetrics", before |-> manager.currentConfig]]
    /\ UNCHANGED <<pool, waiter, proc, svc, cache, limiter, now>>

\* the health-check interval timer fires
ExcellentHealthCheck ==
    /\ manager.healthCheckTimer.armed
    /\ now >= manager.healthCheckTimer.due
    /\ manager' = [healthCheck(manager, now) EXCEPT
                      !.healthCheckTimer.due = now + manager.currentConfig.healthCheckInterval]
    /\ UNCHANGED <<pool, waiter, proc, svc, cache, limiter, now>>

\* a cooldown passes; a sample has arrived since the last one passed
CooldownPasses ==
    /\ manager.ticks < MaxExcellentTicks
    /\ manager.lastOp.op = "recordMetrics"
    /\ now' = now + Cooldown
    /\ manager' = [manager EXCEPT !.ticks = @ + 1,
                                  !.lastOp = [op |-> "tick", before |-> manager.currentConfig]]
    /\ UNCHANGED <<pool, waiter, proc, svc, cache, limiter>>

NextExcellent ==
    \/ ExcellentSample
    \/ ExcellentHealthCheck
    \/ CooldownPasses

\* time does not stop and samples keep arriving
SpecExcellent ==
    /\ InitManager
    /\ [][NextExcellent]_vars
    /\ WF_vars(CooldownPasses)
    /\ WF_vars(ExcellentSample)

(***************************************************************************)
(* PromisePool with a rate delay, on a clock                               *)
(***************************************************************************)
MaxRatedOps == 3      \* operations given to the pool in one behaviour
RateDelay == 2        \* rateLimitMs, in ticks of the clock

\* new PromisePool(maxConcurrent, rateLimitMs), about to receive n operations;
\* duration[i] is the time the promise of operation i takes to settle
NewRatedPool(maxConcurrent, rateLimitMs, n, duration) ==
    [ maxConcurrent |-> maxConcurrent,
      rateLimitMs   |-> rateLimitMs,
      running       |-> 0,
      queue         |-> <<>>,
      stage         |-> [i \in 1..n |-> "new"],
      callOf        |-> [i \in 1..n |-> 0],
      dispatched    |-> <<>>,
      justDispatched |-> <<>>,
      duration      |-> duration,
      dispatchedAt  |-> [i \in 1..n |-> -1],     \* when processNext took the item
      startedAt     |-> [i \in 1..n |-> -1],     \* when item.fn() was invoked
      settledAt     |-> [i \in 1..n |-> -1] ]    \* when its promise settled

\* the operations that processNext took in the run that led from p to q
\* begin their delay(rateLimitMs) at time t
delayed(p, q, t) ==
    [q EXCEPT !.dispatchedAt = [i \in TimedIds(q) |->
                                   IF q.stage[i] = "delay" /\ p.stage[i] # "delay"
                                   THEN t ELSE @[i]]]

\* the next moment at which a delay timer fires or a promise settles
RatedDue(p) ==
    {p.dispatchedAt[i] + p.rateLimitMs : i \in {j \in TimedIds(p) : p.stage[j] = "delay"}}
    \cup {dueAt(p, i) : i \in {j \in TimedIds(p) : p.stage[j] = "exec"}}

\* pool.addAll(tasks) with all the operations, at time 0
RatedAddAll ==
    /\ \A i \in TimedIds(pool) : pool.stage[i] = "new"
    /\ LET ids == [k \in 1..Cardinality(TimedIds(pool)) |-> k]
       IN pool' = delayed(pool, addAll(begin(pool), ids), now)
    /\ UNCHANGED <<waiter, proc, svc, cache, manager, limiter, now>>

\* await this.delay(this.rateLimitMs) of operation id is over: item.fn() is
\* invoked
RatedDelayFires(id) ==
    /\ pool.stage[id] = "delay"
    /\ pool.dispatchedAt[id] + pool.rateLimitMs = now
    /\ id = NextDelayed(pool)
    /\ pool' = [begin(pool) EXCEPT !.stage[id] = "exec", !.startedAt[id] = now]
    /\ UNCHANGED <<waiter, proc, svc, cache, manager, limiter, now>>

\* the promise of operation id settles, duration[id] after its start
RatedSettle(id, ok) ==
    /\ pool.stage[id] = "exec"
    /\ dueAt(pool, id) = now
    /\ pool' = delayed(pool,
                       [settle(begin(pool), id, ok) EXCEPT !.settledAt[id] = now],
                       now)
    /\ UNCHANGED <<waiter, proc, svc, cache, manager, limiter, now>>

\* nothing is due: time passes until the next timer or promise is
RatedTimePasses ==
    /\ RatedDue(pool) # {}
    /\ \A t \in RatedDue(pool) : t > now
    /\ now' = CHOOSE t \in RatedDue(pool) : \A u \in RatedDue(pool) : t <= u
    /\ UNCHANGED <<pool, waiter, proc, svc, cache, manager, limiter>>

InitPoolRated ==
    /\ \E maxConcurrent \in 1..MaxConcurrent, n \in 1..MaxRatedOps :
          \E duration \in [1..n -> 1..MaxDuration] :
              pool = NewRatedPool(maxConcurrent, RateDelay, n, duration)
    /\ proc = NewProcessor(FALSE, 1)
    /\ waiter = "none"
    /\ svc = NewService("none")
    /\ cache = IdleCache
    /\ manager = IdleManager
    /\ limiter = IdleLimiter
    /\ now = 0

NextPoolRated ==
    \/ RatedAddAll
    \/ \E id \in 1..MaxRatedOps : id \in TimedIds(pool) /\ RatedDelayFires(id)
    \/ \E id \in 1..MaxRatedOps, ok \in BOOLEAN : id \in TimedIds(pool) /\ RatedSettle(id, ok)
    \/ RatedTimePasses

SpecPoolRated == InitPoolRated /\ [][NextPoolRated]_vars

(***************************************************************************)
(* Properties of the PromisePool                                           *)
(***************************************************************************)
Settled(p) == InStage(p, "resolved") \cup InStage(p, "rejected")
InFlight(p) == InStage(p, "delay") \cup InStage(p, "exec")

\* C5: in every reachable state of a PromisePool, whatever the interleaving
\* of add and addAll calls and of settlements, the number of operations that
\* were dispatched and have not settled (the running counter) is at most
\* maxConcurrent.
C5_RunningAtMostMaxConcurrent ==
    /\ pool.running = Cardinality(InFlight(pool))
    /\ pool.running <= pool.maxConcurrent

\* the pool is saturated, operations wait behind it and one has already settled
C5_Witness ==
    /\ pool.maxConcurrent >= 1
    /\ pool.running = pool.maxConcurrent
    /\ Len(pool.queue) > 0
    /\ Settled(pool) # {}

\* C6: whenever the pool dispatches an item, that item has the highest
\* priority among the items queued at that moment, and among the queued items
\* of that priority it is the one submitted earliest (ids are given in the
\* order of submission); of two entries of one addAll array the earlier is
\* never dispatched after the later.
C6_DispatchByPriorityThenArrival ==
    /\ \A k \in 1..Len(pool.justDispatched) :
          LET d == pool.justDispatched[k]
          IN \A j \in 1..Len(d.waiting) :
                /\ d.waiting[j].priority <= d.item.priority
                /\ d.waiting[j].priority = d.item.priority => d.item.id <= d.waiting[j].id
    /\ \A a, b \in OpIds :
          (a < b /\ pool.callOf[a] # 0 /\ pool.callOf[a] = pool.callOf[b]) =>
             /\ pool.stage[b] \notin {"new", "queued"} => pool.stage[a] \notin {"new", "queued"}
             /\ \A i, j \in 1..Len(pool.dispatched) :
                   (pool.dispatched[i] = a /\ pool.dispatched[j] = b) => i < j

\* a dispatch that overtook an operation submitted earlier with a lower
\* priority, out of a queue of several
C6_Witness ==
    \E k \in 1..Len(pool.justDispatched) :
       LET d == pool.justDispatched[k]
       IN /\ Len(d.waiting) >= 2
          /\ \E j \in 1..Len(d.waiting) :
                d.waiting[j].id < d.item.id /\ d.waiting[j].priority < d.item.priority

\* C8: when an operation run by the pool fails, only the future of that
\* operation is rejected and no settled future changes; the running counter is
\* decremented (and incremented again only for the operation dispatched next);
\* the pool goes on dispatching what is queued, and once an operation has
\* failed every operation still queued is eventually dispatched and settled.
C8_FailureStaysLocal ==
    /\ \A i \in OpIds :
          (pool.maxConcurrent >= 1 /\ InStage(pool, "rejected") # {} /\ pool.stage[i] = "queued")
             ~> (pool.stage[i] \in {"resolved", "rejected"})
    /\ [][\A id \in OpIds :
             (pool.stage[id] = "exec" /\ pool'.stage[id] = "rejected") =>
                LET room == pool.running - 1 < pool.maxConcurrent /\ Len(pool.queue) > 0
                IN /\ \A j \in OpIds \ {id} :
                         /\ pool'.stage[j] = "rejected" => pool.stage[j] = "rejected"
                         /\ pool.stage[j] \in {"resolved", "rejected", "exec"} =>
                               pool'.stage[j] = pool.stage[j]
                   /\ pool'.running = pool.running - 1 + (IF room THEN 1 ELSE 0)
                   /\ Len(pool'.queue) = Len(pool.queue) - (IF room THEN 1 ELSE 0)
                   /\ room => Len(pool'.justDispatched) = 1
         ]_vars

\* an operation failed, and an operation dispatched after that failure resolved
C8_Witness ==
    /\ pool.maxConcurrent = 1
    /\ \E i, j \in 1..Len(pool.dispatched) :
          /\ i < j
          /\ pool.stage[pool.dispatched[i]] = "rejected"
          /\ pool.stage[pool.dispatched[j]] = "resolved"

\* C9: if every operation the pool starts settles and maxConcurrent >= 1,
\* every submitted operation is eventually dispatched and its future settled,
\* the pool eventually has running = 0 and queued = 0, a waitForAll() that is
\* waiting then resolves, and waitForAll() never resolves while either number
\* is non-zero.
C9_PoolDrains ==
    /\ \A i \in OpIds :
          (pool.maxConcurrent >= 1 /\ pool.stage[i] = "queued")
             ~> (pool.stage[i] \in {"resolved", "rejected"})
    /\ (pool.maxConcurrent >= 1) ~> poolIdle(pool)
    /\ (pool.maxConcurrent >= 1 /\ waiter = "polling") ~> (waiter = "resolved")
    /\ [][(waiter # "resolved" /\ waiter' = "resolved") => poolIdle(pool)]_vars

\* everything submitted has settled, some of it after waiting in the queue,
\* and waitForAll() has resolved
C9_Witness ==
    /\ waiter = "resolved"
    /\ pool.maxConcurrent = 1
    /\ Settled(pool) = OpIds
    /\ poolIdle(pool)

(***************************************************************************)
(* Properties of translateSmartBatch and batchTranslate                    *)
(***************************************************************************)
InputKeys == {proc.items[i].key : i \in 1..Len(proc.items)}
\* the priority calculatePriority(text, keys.length) gave the task
PriorityOfTask(task) == task.priority
HelloWorldHello ==
    << [key |-> KeyOf(1), text |-> TextHello],
       [key |-> KeyOf(2), text |-> TextWorld],
       [key |-> KeyOf(3), text |-> TextHello] >>

\* C1: for every call of translateSmartBatch on entries with unique keys, and
\* whichever translator calls fail, the key set of the returned result map is
\* exactly the set of input keys.
C1_ResultKeysAreInputKeys ==
    proc.pc = "returned" => DOMAIN proc.results = InputKeys

\* a call returned for a full list in which two keys share a text whose
\* translation failed, next to a text that was translated
C1_Witness ==
    /\ proc.pc = "returned"
    /\ Len(proc.items) = MaxItems
    /\ \E i, j \in 1..Len(proc.items) :
          /\ i # j
          /\ proc.items[i].text = proc.items[j].text
          /\ proc.items[i].key \in DOMAIN proc.results
          /\ proc.results[proc.items[i].key].kind = "error"
    /\ \E k \in DOMAIN proc.results : proc.results[k].kind = "string"

\* C3: in one translateSmartBatch call the translator is invoked at most once
\* for each distinct source text, and all keys sharing a text get the same
\* outcome; the entries {k1: Hello, k2: World, k3: Hello} cause exactly two
\* translator calls and k1 and k3 get the same value.
C3_OneCallPerDistinctText ==
    /\ \A i, j \in 1..Len(proc.calls) :
          i # j => proc.tasks[proc.calls[i]].text # proc.tasks[proc.calls[j]].text
    /\ proc.pc = "returned" =>
          /\ \A i, j \in 1..Len(proc.items) :
                proc.items[i].text = proc.items[j].text =>
                   /\ proc.items[i].key \in DOMAIN proc.results
                   /\ proc.items[j].key \in DOMAIN proc.results
                   /\ proc.results[proc.items[i].key] = proc.results[proc.items[j].key]
          /\ proc.items = HelloWorldHello =>
                /\ Len(proc.calls) = 2
                /\ proc.results[KeyOf(1)] = proc.results[KeyOf(3)]

\* the call on {k1: Hello, k2: World, k3: Hello} returned the translations
C3_Witness ==
    /\ proc.pc = "returned"
    /\ proc.items = HelloWorldHello
    /\ KeyOf(1) \in DOMAIN proc.results
    /\ proc.results[KeyOf(1)] = Str(Translated(TextHello))
    /\ KeyOf(2) \in DOMAIN proc.results
    /\ proc.results[KeyOf(2)] = Str(Translated(TextWorld))

\* C4: when the translator fails for some unique texts, translateSmartBatch
\* still resolves and never rejects: every key of a failed text is mapped to
\* the error descriptor, every key of a text that succeeded is mapped to its
\* translation, and every other text has still been translated.
C4_PartialFailureIsRecovered ==
    /\ proc.pc # "rejected"
    /\ proc.pc = "returned" =>
          \A id \in 1..Len(proc.tasks) :
             LET task == proc.tasks[id]
             IN /\ proc.outcome[id] # "none"
                /\ \A k \in 1..Len(task.keys) :
                      /\ task.keys[k] \in DOMAIN proc.results
                      /\ proc.results[task.keys[k]] =
                            IF proc.outcome[id] = "ok" THEN Str(Translated(task.text))
                            ELSE ErrorObject(ErrorPrefix \o messageOf(proc.outcome[id], task.text))

\* one at a time: a text with two keys failed, and a text dispatched after
\* that failure was translated
C4_Witness ==
    /\ proc.pc = "returned"
    /\ pool.maxConcurrent = 1
    /\ \E a, b \in 1..Len(proc.tasks) :
          /\ a < b
          /\ proc.outcome[a] = "fail"
          /\ Len(proc.tasks[a].keys) = 2
          /\ proc.outcome[b] = "ok"

\* C7: within one translateSmartBatch call, for unique texts A and B with
\* calculatePriority(A) > calculatePriority(B), A is taken from the pool's
\* queue no later than B, whatever the order of completion.
C7_HigherPriorityDispatchedFirst ==
    \A a, b \in 1..Len(proc.tasks) :
       PriorityOfTask(proc.tasks[a]) > PriorityOfTask(proc.tasks[b]) =>
          /\ pool.stage[b] \notin {"new", "queued"} => pool.stage[a] \notin {"new", "queued"}
          /\ \A i, j \in 1..Len(pool.dispatched) :
                (pool.dispatched[i] = a /\ pool.dispatched[j] = b) => i < j

\* three texts of three priorities, handed over lowest priority first, have
\* all been dispatched, and the one dispatched last completed before the first
C7_Witness ==
    /\ Len(proc.tasks) = 3
    /\ Len(pool.dispatched) = 3
    /\ proc.items[1].text = TextBigA
    /\ proc.items[2].text = TextFormat
    /\ proc.items[3].text = TextHello
    /\ PriorityOfTask(proc.tasks[1]) > PriorityOfTask(proc.tasks[2])
    /\ PriorityOfTask(proc.tasks[2]) > PriorityOfTask(proc.tasks[3])
    /\ pool.stage[pool.dispatched[3]] = "resolved"
    /\ pool.stage[pool.dispatched[1]] = "exec"

\* C2: for every service's batchTranslate call with unique input keys, each
\* input key appears exactly once across result.translations and
\* result.failed together, so totalProcessed + totalFailed is the number of
\* input entries.
C2_EachKeyExactlyOnce ==
    svc.pc = "done" =>
       LET r == svc.result
           occurrences(key) ==
               Cardinality({i \in 1..Len(r.translations) : r.translations[i].key = key})
               + Cardinality({i \in 1..Len(r.failed) : r.failed[i].key = key})
       IN /\ \A i \in 1..Len(proc.items) : occurrences(proc.items[i].key) = 1
          /\ r.totalProcessed + r.totalFailed = Len(proc.items)

\* a batchTranslate call of the Google service on at least one entry returned
C2_Witness ==
    /\ svc.pc = "done"
    /\ svc.name = "google"
    /\ Len(proc.items) >= 1

(***************************************************************************)
(* Properties of the TranslationCache                                      *)
(***************************************************************************)
\* C10: for all (text, from, to, service): after set(text, v, from, to,
\* service), with no clear and no removal of that entry in between, every
\* get(text, from, to, service) made within TTL of the entry's last touch
\* returns v, increases that entry's hitCount by exactly 1 and totalHits by 1.
C10_GetReturnsWhatWasSet ==
    [][(cache'.ops = cache.ops + 1 /\ cache'.lastOp.op = "get") =>
          LET u == cache'.lastOp.tuple
              i == IndexOf(cache.memoryCache, KeyOfTuple(u))
          IN (/\ cache.lastSet[u].found
              /\ i # 0
              /\ now - cache.memoryCache[i].entry.timestamp <= TTL) =>
                /\ cache'.lastOp.result = cache.lastSet[u]
                /\ Len(cache'.memoryCache) = Len(cache.memoryCache)
                /\ cache'.memoryCache[i].entry.hitCount =
                      cache.memoryCache[i].entry.hitCount + 1
                /\ cache'.totalHits = cache.totalHits + 1
      ]_vars

\* a get of a tuple that was set before, and whose entry is still there, hit
C10_Witness ==
    /\ cache.lastOp.op = "get"
    /\ cache.lastOp.result.found
    /\ cache.lastSet[cache.lastOp.tuple].found
    /\ cache.lastOp.tuple.text = CacheLong1
    /\ cache.totalHits = 1

\* C11: in every reachable state of the cache (after loading from storage and
\* after any sequence of set, get, sweep, flush and clear) the number of
\* in-memory entries is at most MAX_MEMORY_ENTRIES; in particular after every
\* set().
C11_AtMostMaxEntries ==
    Len(cache.memoryCache) <= MAX_MEMORY_ENTRIES

\* a session that loaded an entry made two sets, nothing else and no flush:
\* the second set found the table full, and the table is full again
C11_Witness ==
    /\ cache.storage.present
    /\ cache.ops = 2
    /\ cache.lastOp.op = "set"
    /\ cache.totalHits = 0 /\ cache.totalMisses = 0
    /\ cache.lastFlush = "none"
    /\ Len(cache.memoryCache) = MAX_MEMORY_ENTRIES
    /\ KeyOfTuple(cache.lastOp.tuple) \in KeysOf(cache.memoryCache)

\* C12: an entry expires TTL after its last touch (set or hit): a get() made
\* more than TTL after the last touch returns a miss, removes the entry and
\* increments the miss count; a get() that hits, and a set(), put the entry's
\* TTL clock at the time of the call.
C12_ExpiresTTLAfterLastTouch ==
    [][LET key == KeyOfTuple(cache'.lastOp.tuple)
           i   == IndexOf(cache.memoryCache, key)
           j   == IndexOf(cache'.memoryCache, key)
       IN /\ (cache'.ops = cache.ops + 1 /\ cache'.lastOp.op = "set") =>
                (j # 0 /\ cache'.memoryCache[j].entry.timestamp = now)
          /\ (cache'.ops = cache.ops + 1 /\ cache'.lastOp.op = "get" /\ i # 0) =>
                IF now - cache.memoryCache[i].entry.timestamp > TTL
                THEN /\ cache'.lastOp.result = Null
                     /\ j = 0
                     /\ Len(cache'.memoryCache) = Len(cache.memoryCache) - 1
                     /\ cache'.totalMisses = cache.totalMisses + 1
                     /\ cache'.totalHits = cache.totalHits
                ELSE /\ cache'.lastOp.result.found
                     /\ j # 0
                     /\ cache'.memoryCache[j].entry.timestamp = now
                     /\ cache'.totalMisses = cache.totalMisses
      ]_vars

\* the loaded entry was hit SaveDelay after the start and hit again TTL later:
\* without the first hit it would have expired
C12_Witness ==
    /\ cache.ops = 2
    /\ cache.totalHits = 2
    /\ cache.lastOp.op = "get"
    /\ cache.lastOp.result.found
    /\ now = StartTime + SaveDelay + TTL

\* a step that runs saveToStorage(): the debounce timer, the cleanup timer or
\* dispose()
FlushStep ==
    \/ cache'.ops = cache.ops /\ cache'.ticks = cache.ticks /\ cache' # cache
    \/ cache'.ops = cache.ops + 1 /\ cache'.lastOp.op = "dispose"

RecordStep ==
    /\ manager'.lastOp.op = "recordMetrics"
    /\ manager'.ticks = manager.ticks
    /\ manager' # manager

HealthStep ==
    /\ manager'.lastOp.op = "healthCheck"
    /\ manager'.ticks = manager.ticks
    /\ manager' # manager

LimitsOf(m) == SERVICE_PROFILES[m.service].limits

C15_ExcellentNeverDecreases ==
    [][/\ (RecordStep /\ evaluateNetworkCondition(manager').status = "excellent") =>
             /\ manager'.currentConfig.maxConcurrent >= manager.currentConfig.maxConcurrent
             /\ manager'.currentConfig.maxConcurrent <= LimitsOf(manager).maxConcurrent
       /\ (HealthStep /\ evaluateNetworkCondition(manager).status = "excellent") =>
             /\ manager'.currentConfig.maxConcurrent >= manager.currentConfig.maxConcurrent
             /\ manager'.currentConfig.maxConcurrent <= LimitsOf(manager).maxConcurrent
      ]_vars

\* Google's manager was raised twice from its base of 3 by excellent samples,
\* and a health check has just run on nothing but excellent samples
C15_Witness ==
    /\ manager.service = "google"
    /\ manager.lastOp.op = "healthCheck"
    /\ Len(manager.metrics) >= MetricsWindow
    /\ \A i \in 1..Len(manager.metrics) : manager.metrics[i] = SampleExcellent
    /\ manager.currentConfig.maxConcurrent = 5

\* C16: if the last MetricsWindow samples (10 in the source) have a mean error
\* rate above 30%, the evaluation is critical, and the health-check tick that
\* finds them - inside the adjustment cooldown or not - sets maxConcurrent to
\* the profile's minimum concurrency and rateLimitMs to the profile's maximum
\* rate interval.
C16_CriticalClampsAtHealthCheck ==
    [][LET recent == recentMetrics(manager.metrics)
       IN (Len(recent) > 0 /\ sumErrorRate(recent) > 30 * Len(recent)) =>
             /\ evaluateNetworkCondition(manager).status = "critical"
             /\ HealthStep =>
                   /\ manager'.currentConfig.maxConcurrent = LimitsOf(manager).minConcurrent
                   /\ manager'.currentConfig.rateLimitMs = LimitsOf(manager).maxRateLimit
      ]_vars

\* a health check inside the cooldown of an earlier adjustment found failing
\* samples and took the concurrency from above the minimum down to it
C16_Witness ==
    /\ manager.lastOp.op = "healthCheck"
    /\ manager.lastAdjustment > StartTime
    /\ now - manager.lastAdjustment < Cooldown
    /\ Len(manager.metrics) >= MetricsWindow
    /\ sumErrorRate(recentMetrics(manager.metrics)) > 30 * MetricsWindow
    /\ manager.lastOp.before.maxConcurrent > LimitsOf(manager).minConcurrent
    /\ manager.currentConfig.maxConcurrent = LimitsOf(manager).minConcurrent
    /\ manager.currentConfig.rateLimitMs = LimitsOf(manager).maxRateLimit

(***************************************************************************)
(* Properties of batchTranslate's result and of the progress reports       *)
(***************************************************************************)
\* C17: batchTranslate with an empty list of entries returns no translations,
\* no failures and success = true, without invoking the translator.
C17_EmptyBatchSucceeds ==
    (svc.pc = "done" /\ Len(proc.items) = 0) =>
       /\ svc.result.translations = << >>
       /\ svc.result.failed = << >>
       /\ proc.calls = << >>
       /\ svc.result.success

\* a batchTranslate call on no entries returned, and its success flag is false
C17_Witness ==
    /\ svc.pc = "done"
    /\ Len(proc.items) = 0
    /\ svc.result.translations = << >>
    /\ svc.result.failed = << >>
    /\ proc.calls = << >>
    /\ ~svc.result.success

\* the entries whose key got no translation: no value, an error object, an
\* empty string or the source text itself
FailedEntries(entries, results) ==
    { i \in 1..Len(entries) :
         \/ ~Has(results, entries[i].key)
         \/ results[entries[i].key].kind = "error"
         \/ ~Truthy(results[entries[i].key])
         \/ results[entries[i].key] = Str(entries[i].text) }

ValidEntryFor(text) ==
    \E i \in 1..Len(cache.memoryCache) :
       /\ cache.memoryCache[i].entry.originalText = text
       /\ now - cache.memoryCache[i].entry.timestamp <= TTL

\* C19: in a batch call, a unique text that has a valid cache entry is not
\* passed to the translator, and every successful translation is written to
\* the cache (so that a second batch call with the same texts within TTL
\* makes no translator call for them).
C19_BatchUsesCache ==
    /\ \A k \in 1..Len(proc.calls) : ~ValidEntryFor(proc.tasks[proc.calls[k]].text)
    /\ \A id \in 1..Len(proc.tasks) :
          proc.outcome[id] = "ok" =>
             \E i \in 1..Len(cache.memoryCache) :
                /\ cache.memoryCache[i].entry.originalText = proc.tasks[id].text
                /\ cache.memoryCache[i].entry.translatedText = Translated(proc.tasks[id].text)

\* a batch over a cached text has returned: the translator was called for
\* that text and succeeded, and the cache still holds only the old entry
C19_Witness ==
    /\ proc.pc = "returned"
    /\ Len(cache.memoryCache) = 1
    /\ \E k \in 1..Len(proc.calls) :
          /\ ValidEntryFor(proc.tasks[proc.calls[k]].text)
          /\ proc.outcome[proc.calls[k]] = "ok"

\* C20: translateSmartBatch calls onProgress exactly once per unique text,
\* after that text's translation has settled; the k-th call passes
\* round(100 * k / U), U being the number of unique texts; the values are
\* non-decreasing, lie in 0..100, and the last one is 100.
C20_ProgressPerUniqueText ==
    LET U == Cardinality({proc.items[i].text : i \in 1..Len(proc.items)})
        settled == {id \in 1..Len(proc.tasks) : proc.outcome[id] # "none"}
    IN /\ Len(proc.progress) = Cardinality(settled)
       /\ Len(proc.progress) <= U
       /\ \A k \in 1..Len(proc.progress) :
             LET p == proc.progress[k]
             IN /\ 2 * p * U <= 200 * k + U
                /\ 200 * k + U < 2 * (p + 1) * U
                /\ p \in 0..100
                /\ k > 1 => proc.progress[k - 1] <= p
       /\ proc.pc = "returned" =>
             /\ Len(proc.progress) = U
             /\ U > 0 => proc.progress[U] = 100

\* a batch of three different texts has returned after three reports
C20_Witness ==
    /\ proc.pc = "returned"
    /\ proc.progress = <<33, 67, 100>>

(***************************************************************************)
(* Properties of the RateLimiter                                           *)
(***************************************************************************)
\* the grants made in the window of windowMs that ends at time e
GrantsInWindow(e) ==
    { i \in 1..Len(limiter.granted) :
         limiter.granted[i] <= e /\ e - limiter.granted[i] < limiter.windowMs }

\* C21: for a RateLimiter(maxRequests, windowMs) used by any number of
\* concurrent waitForSlot callers, in every trailing window of windowMs at
\* most maxRequests calls have been granted a slot; each grant records exactly
\* one timestamp (the recorded timestamps are the latest grants, in order),
\* and getStatus().current never exceeds max.
C21_AtMostMaxRequestsPerWindow ==
    /\ \A e \in {limiter.clock} \cup {limiter.granted[i] : i \in 1..Len(limiter.granted)} :
          Cardinality(GrantsInWindow(e)) <= limiter.maxRequests
    /\ Len(limiter.requests) <= Len(limiter.granted)
    /\ limiter.requests =
          SubSeq(limiter.granted, Len(limiter.granted) - Len(limiter.requests) + 1,
                 Len(limiter.granted))
    /\ Len(limiter.requests) <= limiter.maxRequests
    /\ limiter.status.current <= limiter.status.max

\* the window is full, a caller is waiting for a slot, and more slots have
\* been granted over time than fit in one window
C21_Witness ==
    /\ limiter.maxRequests = 2
    /\ Cardinality(GrantsInWindow(limiter.clock)) = limiter.maxRequests
    /\ \E c \in Callers : limiter.pc[c] = "delay"
    /\ Len(limiter.granted) > limiter.maxRequests
    /\ limiter.status.current = limiter.status.max

(***************************************************************************)
(* Properties of the TranslationCache: dispose, sweep, debounce            *)
(***************************************************************************)
\* C22: after cache.dispose() returns, neither the debounce timer nor the
\* periodic sweep timer is pending, and the durable store holds the
\* serialization of the complete current in-memory table (stated here for the
\* calls in which localStorage.setItem does not fail).
C22_DisposeFlushes ==
    [][(/\ cache'.ops = cache.ops + 1
        /\ cache'.lastOp.op = "dispose"
        /\ cache'.lastFlush \notin {"quota", "error"}) =>
          /\ ~cache'.saveTimer.armed
          /\ ~cache'.cleanupTimer.armed
          /\ cache'.storage = Item(cache'.memoryCache)
      ]_vars

\* dispose() has returned, the table holds entries and the store does not
\* hold them, although setItem was never refused
C22_Witness ==
    /\ cache.lastOp.op = "dispose"
    /\ cache.lastFlush = "stack overflow"
    /\ Len(cache.memoryCache) >= 2
    /\ cache.storage # Item(cache.memoryCache)
    /\ ~cache.saveTimer.armed
    /\ ~cache.cleanupTimer.armed


(***************************************************************************)
(* Properties of the PromisePool with operations of equal duration         *)
(***************************************************************************)
\* five operations of one duration d, given together to a pool of two slots
FiveEqualOnTwo ==
    /\ pool.maxConcurrent = 2
    /\ pool.rateLimitMs = 0
    /\ TimedIds(pool) = 1..5
    /\ \A i \in TimedIds(pool) : pool.duration[i] = pool.duration[1]

\* the operations dispatched at time t
Wave(t) == {i \in TimedIds(pool) : pool.startedAt[i] = t}

\* C23: with maxConcurrent = 2 and no rate-limit delay, five operations of equal
\* duration d submitted together are dispatched in three waves of sizes 2, 2
\* and 1, at 0, d and 2d, and the last operation settles at time 3d: at every
\* moment the started operations are the first ones of these waves, a wave
\* starts when the one before it has settled, and once every operation has
\* settled the waves are complete and the last settlement was at 3d.
C23_ThreeWaves ==
    FiveEqualOnTwo =>
        LET d == pool.duration[1]
        IN /\ \A i \in TimedIds(pool) :
                 /\ pool.startedAt[i] \in {-1, 0, d, 2 * d}
                 /\ pool.settledAt[i] # -1 => pool.settledAt[i] = pool.startedAt[i] + d
           /\ Cardinality(Wave(0)) <= 2
           /\ Cardinality(Wave(d)) <= 2
           /\ Cardinality(Wave(2 * d)) <= 1
           /\ now >= d => Cardinality(Wave(0)) = 2
           /\ now >= 2 * d => Cardinality(Wave(d)) = 2
           /\ now <= 3 * d
           /\ (\A i \in TimedIds(pool) : pool.settledAt[i] # -1) =>
                 /\ Cardinality(Wave(0)) = 2
                 /\ Cardinality(Wave(d)) = 2
                 /\ Cardinality(Wave(2 * d)) = 1
                 /\ \E i \in TimedIds(pool) : pool.settledAt[i] = 3 * d
                 /\ \A i \in TimedIds(pool) : pool.settledAt[i] <= 3 * d

\* all five operations have settled, the last one at 3d
C23_Witness ==
    /\ FiveEqualOnTwo
    /\ pool.duration[1] = 2
    /\ \A i \in TimedIds(pool) : pool.settledAt[i] # -1
    /\ Cardinality(Wave(0)) = 2 /\ Cardinality(Wave(2)) = 2 /\ Cardinality(Wave(4)) = 1
    /\ now = 6

\* the hourly sweep ran: the interval timer is due one interval later
SweepStep ==
    /\ cache.cleanupTimer.armed
    /\ cache'.cleanupTimer.due # cache.cleanupTimer.due

\* the entries of a table a predicate on the age selects
EntriesAged(table, t, P(_)) ==
    {k \in 1..Len(table) : P(t - table[k].entry.timestamp)}

OlderThanHalfTTL(age) == age > TTL \div 2
WithinHalfTTL(age) == age <= TTL \div 2

\* C24: after clearOldEntries has run (here: the hourly sweep, whose write is
\* not refused by the store), no entry whose last touch is more than TTL/2 in
\* the past remains, and every entry touched within the last TTL/2 is retained.
C24_SweepDropsOldKeepsRecent ==
    [][(SweepStep /\ cache'.lastFlush # "quota") =>
          /\ EntriesAged(cache'.memoryCache, now, OlderThanHalfTTL) = {}
          /\ \A k \in EntriesAged(cache.memoryCache, now, WithinHalfTTL) :
                 \E j \in 1..Len(cache'.memoryCache) :
                     cache'.memoryCache[j] = cache.memoryCache[k]
      ]_vars

\* the sweep has just run and saved a table that holds an entry last touched
\* more than TTL/2 ago
C24_Witness ==
    /\ cache.cleanupTimer.armed
    /\ cache.cleanupTimer.due = now + CleanupInterval
    /\ now > StartTime
    /\ cache.lastFlush = "saved"
    /\ EntriesAged(cache.memoryCache, now, OlderThanHalfTTL) # {}
    /\ cache.storage = Item(cache.memoryCache)

(***************************************************************************)
(* Properties of the classification and of the proposed configuration      *)
(***************************************************************************)
\* the samples an evaluation averages: the last ones, at most MetricsWindow
WindowSize == Min(Len(manager.metrics), MetricsWindow)

RECURSIVE RtOfLast(_)
RtOfLast(k) ==
    IF k = 0 THEN 0
    ELSE manager.metrics[Len(manager.metrics) - k + 1].responseTime + RtOfLast(k - 1)

RECURSIVE ErrOfLast(_)
ErrOfLast(k) ==
    IF k = 0 THEN 0
    ELSE manager.metrics[Len(manager.metrics) - k + 1].errorRate + ErrOfLast(k - 1)

\* average response time (ms) and average error rate (percent) against a threshold
AvgRtAbove(x) == RtOfLast(WindowSize) > x * WindowSize
AvgRtBelow(x) == RtOfLast(WindowSize) < x * WindowSize
AvgErrAbove(x) == ErrOfLast(WindowSize) > x * WindowSize
AvgErrBelow(x) == ErrOfLast(WindowSize) < x * WindowSize

IsCritical == AvgErrAbove(30)
IsPoor == ~IsCritical /\ (AvgErrAbove(15) \/ AvgRtAbove(3000))
IsExcellent == AvgRtBelow(500) /\ AvgErrBelow(2)

Evaluated == manager.lastOp.op = "evaluate"
StatusFound == manager.lastOp.condition.status

\* C25 as stated: a window is good whenever it is neither poor nor critical nor
\* excellent and its average response time is below 1500 ms or its average
\* error rate is at most 5 percent, and normal only when neither of the two holds.
C25_GoodIfEitherBelow ==
    (Evaluated /\ Len(manager.metrics) > 0) =>
        /\ (~IsCritical /\ ~IsPoor /\ ~IsExcellent
               /\ (AvgRtBelow(1500) \/ ~AvgErrAbove(5))) => StatusFound = "good"
        /\ StatusFound = "normal" => (~AvgRtBelow(1500) /\ AvgErrAbove(5))

\* C25: a window is good exactly when it is neither poor nor critical nor
\* excellent and its average response time is at most 1500 ms and its average
\* error rate is at most 5 percent; it is normal exactly when it is neither
\* poor nor critical and the average response time is above 1500 ms or the
\* average error rate is above 5 percent.
C25_GoodIfBothBelow ==
    (Evaluated /\ Len(manager.metrics) > 0) =>
        /\ StatusFound = "good" <=>
              (~IsCritical /\ ~IsPoor /\ ~IsExcellent
                 /\ ~AvgRtAbove(1500) /\ ~AvgErrAbove(5))
        /\ StatusFound = "normal" <=>
              (~IsCritical /\ ~IsPoor /\ (AvgRtAbove(1500) \/ AvgErrAbove(5)))

\* a window with no errors and an average response time above 1500 ms was
\* found normal
C25_Witness ==
    /\ Evaluated
    /\ Len(manager.metrics) > 0
    /\ ~AvgErrAbove(0)
    /\ AvgRtAbove(1500) /\ ~AvgRtAbove(3000)
    /\ StatusFound = "normal"

\* C26: the averages are taken over at most the last MetricsWindow samples
\* (10 in the source); the window is critical iff the average error rate is
\* above 30 percent, poor iff it is not critical and the average error rate
\* is above 15 percent or the average response time above 3000 ms, excellent
\* iff the average response time is below 500 ms and the average error rate
\* below 2 percent; an empty history is normal.
C26_Thresholds ==
    Evaluated =>
        /\ Len(manager.metrics) = 0 => StatusFound = "normal"
        /\ Len(manager.metrics) > 0 =>
              /\ manager.lastOp.condition.count = WindowSize
              /\ manager.lastOp.condition.rtSum = RtOfLast(WindowSize)
              /\ StatusFound = "critical" <=> IsCritical
              /\ StatusFound = "poor" <=> IsPoor
              /\ StatusFound = "excellent" <=> IsExcellent

\* a failing sample that has left the window does not count: the window after
\* it is found excellent
C26_Witness ==
    /\ Evaluated
    /\ Len(manager.metrics) > MetricsWindow
    /\ manager.metrics[1] = SampleFailing
    /\ StatusFound = "excellent"

\* C27: for a current configuration within the limits of the profile,
\* calculateOptimalConfig proposes: excellent, maxConcurrent + 1 capped at the
\* profile maximum and rateLimitMs less 10 percent floored at the profile
\* minimum; good, maxConcurrent + 1 (capped) only if the average response time
\* is below 300 ms, else no change; normal, no change; poor, maxConcurrent - 1
\* floored at the profile minimum and rateLimitMs plus 30 percent capped at the
\* profile maximum; critical, the profile minimum concurrency and the profile
\* maximum rate interval.  backoffFactor and healthCheckInterval are never changed.
C27_ProposalPerStatus ==
    Evaluated =>
        LET limits == SERVICE_PROFILES[manager.service].limits
            b      == manager.lastOp.before
            q      == manager.lastOp.proposal
        IN /\ StatusFound = "excellent" =>
                 /\ q.maxConcurrent = Min(b.maxConcurrent + 1, limits.maxConcurrent)
                 /\ q.rateLimitMs = Max((b.rateLimitMs * 9) \div 10, limits.minRateLimit)
           /\ StatusFound = "good" =>
                 /\ q.maxConcurrent = IF Len(manager.metrics) > 0 /\ AvgRtBelow(300)
                                      THEN Min(b.maxConcurrent + 1, limits.maxConcurrent)
                                      ELSE b.maxConcurrent
                 /\ q.rateLimitMs = b.rateLimitMs
           /\ StatusFound = "normal" => q = b
           /\ StatusFound = "poor" =>
                 /\ q.maxConcurrent = Max(b.maxConcurrent - 1, limits.minConcurrent)
                 /\ q.rateLimitMs = Min((b.rateLimitMs * 13) \div 10, limits.maxRateLimit)
           /\ StatusFound = "critical" =>
                 /\ q.maxConcurrent = limits.minConcurrent
                 /\ q.rateLimitMs = limits.maxRateLimit
           /\ q.backoffFactor = b.backoffFactor
           /\ q.healthCheckInterval = b.healthCheckInterval

\* a good window with an average response time of 300 ms or more: nothing is
\* proposed to change, although the concurrency is below the profile maximum
C27_Witness ==
    /\ Evaluated
    /\ StatusFound = "good"
    /\ Len(manager.metrics) > 0
    /\ ~AvgRtBelow(300)
    /\ manager.lastOp.before.maxConcurrent < SERVICE_PROFILES[manager.service].limits.maxConcurrent
    /\ manager.lastOp.proposal = manager.lastOp.before

(***************************************************************************)
(* Properties of the adjustment cooldown and the dead-band                 *)
(***************************************************************************)
ResetStep ==
    /\ manager'.lastOp.op = "reset"
    /\ manager'.ticks = manager.ticks

\* the configuration recordMetrics recomputes once the new sample is stored
Recomputed ==
    calculateOptimalConfig(manager,
        evaluateNetworkCondition([manager EXCEPT !.metrics = manager'.metrics]))

\* C28: lastAdjustment is the time of construction, of the last reset() or of
\* the last change of the configuration made through recordMetrics, and
\* recordMetrics changes nothing less than 5000 ms after it: so two changes
\* made through recordMetrics are at least 5000 ms apart and none is made
\* within 5000 ms of construction or reset().  Outside the cooldown the
\* recomputed configuration is applied only if its maxConcurrent differs or its
\* rateLimitMs differs by more than 50 ms; otherwise the configuration and the
\* time of the last adjustment stay as they are.
C28_CooldownAndDeadBand ==
    /\ manager.lastAdjustment = now
    /\ [][/\ ResetStep => manager'.lastAdjustment = now
          /\ (manager'.ticks = manager.ticks /\ ~ResetStep /\ ~RecordStep) =>
                manager'.lastAdjustment = manager.lastAdjustment
          /\ manager'.lastOp.op = "recordMetrics" /\ manager'.ticks = manager.ticks =>
                LET changed == manager'.currentConfig # manager.currentConfig
                    differs == \/ Recomputed.maxConcurrent # manager.currentConfig.maxConcurrent
                               \/ Abs(Recomputed.rateLimitMs - manager.currentConfig.rateLimitMs)
                                     > 50 * RateScale
                IN /\ changed => now - manager.lastAdjustment >= Cooldown
                   /\ changed => manager'.lastAdjustment = now
                   /\ ~changed => manager'.lastAdjustment = manager.lastAdjustment
                   /\ now - manager.lastAdjustment >= Cooldown =>
                         /\ differs => manager'.currentConfig = Recomputed
                         /\ ~differs => manager'.currentConfig = manager.currentConfig
         ]_vars

\* outside the cooldown recordMetrics recomputed a configuration that differs
\* from the current one only by a rate interval within the dead-band, and left
\* the configuration and the time of the last adjustment alone
C28_Witness ==
    /\ manager.lastOp.op = "recordMetrics"
    /\ manager.lastOp.elapsed >= Cooldown
    /\ now - manager.lastAdjustment >= manager.lastOp.elapsed
    /\ manager.lastOp.before = manager.currentConfig
    /\ calculateOptimalConfig(manager, evaluateNetworkCondition(manager)) # manager.currentConfig

(***************************************************************************)
(* Properties of the deferred flush                                        *)
(***************************************************************************)
\* the debounce timer fires
DebounceFires ==
    /\ cache.saveTimer.armed
    /\ ~cache'.saveTimer.armed
    /\ cache'.ops = cache.ops

\* C29: there is one deferred-flush timer, which every set() cancels and
\* re-arms for 5 s later; so when it fires after a burst of set() calls (and
\* the store does not refuse the write) the table is written to storage, and
\* what is written holds every entry of the burst.
C29_BurstWrittenOnce ==
    [][/\ (cache'.ops = cache.ops + 1 /\ cache'.lastOp.op = "set") =>
             cache'.saveTimer = [armed |-> TRUE, due |-> now + SaveDelay]
       /\ (DebounceFires /\ cache'.lastFlush \notin {"quota", "error"}) =>
             /\ now >= cache.saveTimer.due
             /\ cache'.storage = Item(cache'.memoryCache)
             /\ cache.lastOp.burst \subseteq KeysOf(cache'.storage.table)
      ]_vars

\* the timer has fired after a burst of two set() calls and the table was
\* saved, without the entry of the first call
C29_Witness ==
    /\ cache.lastOp.op = "set"
    /\ Cardinality(cache.lastOp.burst) = 2
    /\ ~cache.saveTimer.armed
    /\ cache.lastFlush = "saved"
    /\ cache.storage = Item(cache.memoryCache)
    /\ ~(cache.lastOp.burst \subseteq KeysOf(cache.storage.table))
    /\ KeyOfTuple(cache.lastOp.tuple) \in KeysOf(cache.storage.table)

(***************************************************************************)
(* Properties of createSmartBatches                                        *)
(***************************************************************************)
RECURSIVE Flatten(_)
Flatten(seqs) == IF seqs = <<>> THEN <<>> ELSE Head(seqs) \o Flatten(Tail(seqs))

\* the characters the first k tasks of a batch hold
RECURSIVE CharsOf(_, _)
CharsOf(batch, k) ==
    IF k = 0 THEN 0 ELSE Len(proc.tasks[batch[k]].text) + CharsOf(batch, k - 1)

StoredFor(entry, u) ==
    /\ entry.originalText = u.text
    /\ entry.fromLang = u.from
    /\ entry.toLang = u.to
    /\ entry.service = u.service

\* C31: entries are keyed by the full tuple (service, sourceLang, targetLang,
\* text): a get() that returns a translation returns the one of an entry that
\* was stored for the very tuple asked for, and a set() of a tuple that has
\* no entry yet leaves the entries of the other tuples in place as entries of
\* their own.
C31_KeyedByFullTuple ==
    [][/\ (cache'.ops = cache.ops + 1 /\ cache'.lastOp.op = "get"
            /\ cache'.lastOp.result.found) =>
             LET u == cache'.lastOp.tuple
                 i == IndexOf(cache.memoryCache, KeyOfTuple(u))
             IN i # 0 /\ StoredFor(cache.memoryCache[i].entry, u)
       /\ (cache'.ops = cache.ops + 1 /\ cache'.lastOp.op = "set"
            /\ Len(cache.memoryCache) < MAX_MEMORY_ENTRIES) =>
             LET u == cache'.lastOp.tuple
             IN \A k \in 1..Len(cache.memoryCache) :
                   ~StoredFor(cache.memoryCache[k].entry, u) =>
                       \E j \in 1..Len(cache'.memoryCache) :
                           cache'.memoryCache[j] = cache.memoryCache[k]
      ]_vars

\* a get() has just returned a translation from an entry that holds another
\* text than the one asked for
C31_Witness ==
    /\ cache.lastOp.op = "get"
    /\ cache.lastOp.result.found
    /\ LET i == IndexOf(cache.memoryCache, KeyOfTuple(cache.lastOp.tuple))
       IN /\ i # 0
          /\ cache.memoryCache[i].entry.originalText # cache.lastOp.tuple.text
          /\ cache.memoryCache[i].entry.translatedText = cache.lastOp.result.value

\* the entries of the table a set() found that are gone after it
Evicted ==
    {k \in 1..Len(cache.memoryCache) :
        cache.memoryCache[k].key \notin KeysOf(cache'.memoryCache)}

\* C32: a set() of a new key on a full table evicts exactly one entry, and
\* that entry is the least used one: no entry has fewer hits, and of the
\* entries with as few hits none was touched longer ago.
C32_EvictsLeastUsed ==
    [][(/\ cache'.ops = cache.ops + 1
        /\ cache'.lastOp.op = "set"
        /\ Len(cache.memoryCache) >= MAX_MEMORY_ENTRIES
        /\ KeyOfTuple(cache'.lastOp.tuple) \notin KeysOf(cache.memoryCache)) =>
          /\ Cardinality(Evicted) = 1
          /\ \A k \in Evicted, j \in 1..Len(cache.memoryCache) :
                LET gone  == cache.memoryCache[k].entry
                    other == cache.memoryCache[j].entry
                IN /\ gone.hitCount <= other.hitCount
                   /\ gone.hitCount = other.hitCount => gone.timestamp <= other.timestamp
      ]_vars

\* the second set() of a burst found the table full and evicted the entry the
\* first had just stored, while an entry touched longer ago was kept
C32_Witness ==
    /\ cache.lastOp.op = "set"
    /\ cache.saveTimer.armed
    /\ cache.saveTimer.due = now + SaveDelay
    /\ Cardinality(cache.lastOp.burst) = 2
    /\ \E key \in cache.lastOp.burst : key \notin KeysOf(cache.memoryCache)
    /\ \E k \in 1..Len(cache.memoryCache) :
          /\ cache.memoryCache[k].entry.timestamp < now
          /\ cache.memoryCache[k].entry.hitCount = 0

(***************************************************************************)
(* Properties of the adaptive processor                                    *)
(***************************************************************************)
\* the pool dispatched an operation in this step of a running call
DispatchStep ==
    /\ proc'.runs = proc.runs
    /\ Len(pool'.dispatched) > Len(pool.dispatched)

\* the latest wrapped call read a configuration whose maxConcurrent is below
\* the limit the pool was built with
LoweredTo(m) ==
    /\ proc.lastConfig.maxConcurrent = m
    /\ m > 0
    /\ m < proc.maxConcurrent

\* C33: when an adaptive adjustment has lowered maxConcurrent while
\* operations are in flight, the pool cancels, rejects or alters none of
\* them, and it dispatches no queued operation until running has dropped
\* below the new maxConcurrent.
C33_LoweredLimitHolds ==
    [][\A m \in 1..MaxConcurrent + 2 :
          LoweredTo(m) /\ DispatchStep =>
             /\ Cardinality({i \in InFlight(pool) : pool'.stage[i] # pool.stage[i]}) <= 1
             /\ pool'.running <= m]_vars

\* the manager fell back to one operation at a time, a wrapped call read that
\* configuration and settled, and the pool then dispatched the queued
\* operation next to the one that still waits for its delay
C33_Witness ==
    /\ manager.currentConfig.maxConcurrent = 1
    /\ proc.lastConfig.maxConcurrent = 1
    /\ pool.maxConcurrent = 2
    /\ pool.running = 2
    /\ Len(pool.dispatched) = 3
    /\ Cardinality(InStage(pool, "delay")) = 2
    /\ \E i \in OpIds : proc.outcome[i] = "typeerror"

\* a wrapped translator call was made in this step
WrappedCallStep ==
    proc'.currentSession.totalRequests = proc.currentSession.totalRequests + 1

\* C34: each wrapped translator call first copies the manager's current
\* maxConcurrent and rateLimitMs into the pool, so that the pool's parameters
\* equal getCurrentConfig() at that moment, then invokes the caller's
\* translator exactly once with the text; the configuration update itself
\* never makes the request fail.
C34_WrappedCallCopiesThenCalls ==
    [][WrappedCallStep =>
          /\ pool'.maxConcurrent = getCurrentConfig(manager).maxConcurrent
          /\ pool'.rateLimitMs * RateScale = getCurrentConfig(manager).rateLimitMs
          /\ Len(proc'.translatorCalls) = Len(proc.translatorCalls) + 1
          /\ proc'.currentSession.failedRequests = proc.currentSession.failedRequests]_vars

\* the first wrapped call of a session was made and counted as failed, and
\* the caller's translator was not invoked
C34_Witness ==
    /\ proc.currentSession.totalRequests = 1
    /\ proc.currentSession.failedRequests = 1
    /\ proc.lastConfig = getCurrentConfig(manager)
    /\ proc.translatorCalls = <<>>
    /\ InStage(pool, "exec") # {}

(***************************************************************************)
(* Convergence of the manager                                              *)
(***************************************************************************)
\* C35 as stated: if every recorded sample is excellent and samples keep
\* arriving, at least one after each 5 s cooldown, the manager's configuration
\* eventually reaches the profile's maximum concurrency and the profile's
\* minimum rate interval, for every service profile.
C35_ReachesProfileLimits ==
    <>(/\ manager.currentConfig.maxConcurrent = LimitsOf(manager).maxConcurrent
       /\ manager.currentConfig.rateLimitMs = LimitsOf(manager).minRateLimit)

\* at the profile's maximum concurrency, with a rate interval of at most
\* 500 ms, the proposal for an excellent condition is within the dead-band
Stalled ==
    LET condition == evaluateNetworkCondition(manager)
    IN (/\ condition.status = "excellent"
        /\ manager.currentConfig.maxConcurrent = LimitsOf(manager).maxConcurrent
        /\ manager.currentConfig.rateLimitMs <= 500 * RateScale)
       => ~shouldAdjustConfig(manager, calculateOptimalConfig(manager, condition))

\* C35, amended: under the same samples the configuration eventually reaches
\* the profile's maximum concurrency and stays there, with a rate interval
\* that is not below the profile's minimum and need not reach it: at the
\* maximum concurrency a further step of the interval is never applied,
\* however much time passes.
C35_ReachesMaxConcurrency ==
    /\ <>[](/\ manager.currentConfig.maxConcurrent = LimitsOf(manager).maxConcurrent
             /\ manager.currentConfig.rateLimitMs >= LimitsOf(manager).minRateLimit)
    /\ []Stalled

\* a sample recorded a full cooldown after the last adjustment changed
\* nothing: maxConcurrent is at the profile's maximum and the rate interval
\* is still above the profile's minimum
C35_Witness ==
    /\ manager.lastOp.op = "recordMetrics"
    /\ manager.lastOp.before = manager.currentConfig
    /\ now - manager.lastAdjustment >= Cooldown
    /\ manager.currentConfig.maxConcurrent = LimitsOf(manager).maxConcurrent
    /\ manager.currentConfig.rateLimitMs > LimitsOf(manager).minRateLimit
    /\ \A k \in 1..Len(manager.metrics) : manager.metrics[k] = SampleExcellent

(***************************************************************************)
(* Termination of a flush                                                  *)
(***************************************************************************)
\* C36: every flush of the cache (debounced flush, sweep or dispose)
\* terminates, also when the serialized table exceeds the byte budget: it
\* then purges old entries and ends after writing a table that fits the
\* budget or after giving up, without unbounded recursion between
\* saveToStorage and clearOldEntries.
C36_FlushTerminates ==
    [][FlushStep =>
          /\ cache'.lastFlush # "stack overflow"
          /\ cache'.lastFlush = "saved" =>
                /\ serializedLength(cache'.memoryCache) <= MAX_STORAGE_SIZE
                /\ cache'.storage = Item(cache'.memoryCache)
      ]_vars

\* a timer-driven flush found the table over the budget, purged nothing and
\* called itself until the stack was exhausted; the table is still over the
\* budget and both timers are still armed or re-armed
C36_Witness ==
    /\ cache.lastFlush = "stack overflow"
    /\ cache.lastOp.op # "dispose"
    /\ cache.cleanupTimer.armed
    /\ serializedLength(cache.memoryCache) > MAX_STORAGE_SIZE
    /\ \A i \in 1..Len(cache.memoryCache) : ~isOld(cache.memoryCache[i].entry, now)

C38_InvocationsRateLimitApart ==
    pool.rateLimitMs > 0 /\ pool.maxConcurrent > 1 =>
       \A i, j \in TimedIds(pool) :
          i # j /\ pool.startedAt[i] >= 0 /\ pool.startedAt[j] >= 0 =>
             Abs(pool.startedAt[i] - pool.startedAt[j]) >= pool.rateLimitMs

\* two operations given together were taken in one run of addAll, waited the
\* same delay and were invoked at the same instant
C38_Witness ==
    /\ pool.rateLimitMs > 0
    /\ pool.maxConcurrent > 1
    /\ \E i, j \in TimedIds(pool) :
          /\ i # j
          /\ pool.dispatchedAt[i] = 0
          /\ pool.dispatchedAt[j] = 0
          /\ pool.startedAt[i] = pool.rateLimitMs
          /\ pool.startedAt[j] = pool.rateLimitMs

(***************************************************************************)
(* The adaptive processor after dispose()                                  *)
(***************************************************************************)
\* C39: after AdaptiveParallelTranslationProcessor.dispose(), no timer of the
\* processor or of its manager remains active: no further performance sample
\* is recorded and the manager's ConcurrencyConfig never changes again.
C39_QuietAfterDispose ==
    [][proc.disposed =>
          /\ manager'.metrics = manager.metrics
          /\ manager'.currentConfig = manager.currentConfig]_vars

\* after dispose() the metrics timer fired, reported the failed requests of
\* the session and the manager changed its configuration
C39_Witness ==
    /\ proc.disposed
    /\ ~manager.healthCheckTimer.armed
    /\ manager.lastOp.op = "collectMetrics"
    /\ manager.lastOp.before # manager.currentConfig
    /\ manager.currentConfig.maxConcurrent = LimitsOf(manager).minConcurrent

====
